---- MODULE Spec2Model ----
(***************************************************************************)
(* Memphis control plane: producers' lifecycle (createProducerDirect,      *)
(* destroyProducerDirect, KillProducers, ReliveProducers, the station      *)
(* overview) and the schema engine (CreateNewSchema, CreateNewVersion,     *)
(* RollBackVersion, RemoveSchema) over the document store.                 *)
(*                                                                         *)
(* Every request runs on its own task.  A task's step is one store call,   *)
(* together with the local code that runs between the previous store call  *)
(* and it; the store executes one call at a time.                          *)
(***************************************************************************)
EXTENDS Integers, Sequences, FiniteSets, TLC

VARIABLES
    connections,     \* connections collection: id -> [is_active, created_by_user]
    stations,        \* stations collection: set of rows
    producers,       \* producers collection: rows in insertion order
    auditLogs,       \* audit_logs collection: records in insertion order
    schemas,         \* schemas collection: set of rows
    schemaVersions,  \* schema_versions collection: rows in insertion order
    nextObjectId,    \* source of primitive.NewObjectID() for schemas
    tasks,           \* per task: the running handler, its position and locals
    rooms,           \* socket server: the (room, socket) memberships
    conns,           \* per socket: the running event handler, its position and locals
    emitted,         \* per socket: the frames sent to it, in order
    ticker           \* the broadcaster's goroutine: its position and locals

socketVars == <<rooms, conns, emitted, ticker>>

vars == <<connections, stations, producers, auditLogs, schemas, schemaVersions,
          nextObjectId, tasks, rooms, conns, emitted, ticker>>

(***************************************************************************)
(* Bounds of the model.                                                    *)
(***************************************************************************)
MaxProducers == 2
MaxAuditLogs == 3

MaxVersions == 2
MaxObjectIds == 1

MaxClientAuditLogs == 4
MaxSeedVersions == 2

MaxFrames == 2
MaxShortName == 2

Tasks == {"t1", "t2", "t3"}

\* The tasks that serve requests again and again.
Workers == {"t1", "t2"}

(***************************************************************************)
(* Strings are sequences of one-character strings, so that ToLower and the *)
(* name regexp are computed character by character.                        *)
(***************************************************************************)
LowerLetters ==
    <<"a","b","c","d","e","f","g","h","i","j","k","l","m",
      "n","o","p","q","r","s","t","u","v","w","x","y","z">>

UpperLetters ==
    <<"A","B","C","D","E","F","G","H","I","J","K","L","M",
      "N","O","P","Q","R","S","T","U","V","W","X","Y","Z">>

Digits == {"0","1","2","3","4","5","6","7","8","9"}

Range(s) == {s[i] : i \in DOMAIN s}

ToLowerChar(c) ==
    IF c \in Range(UpperLetters)
    THEN LowerLetters[CHOOSE i \in DOMAIN UpperLetters : UpperLetters[i] = c]
    ELSE c

ToLower(s) == [i \in DOMAIN s |-> ToLowerChar(s[i])]

MaxNameLen == 32

\* Faulty variant: a name of 33 characters passes the length check.
validateProducerNameUnder34(name) ==
    IF Len(name) = 0 THEN "Producer name can not be empty"
    ELSE IF Len(name) > MaxNameLen + 1 THEN "Producer name should be under 32 characters"
    ELSE IF ~(\A i \in DOMAIN name : name[i] \in Range(LowerLetters) \cup Digits \cup {"_"})
         THEN "Producer name has to include only letters and _"
    ELSE "nil"

validateProducerName(name) ==
    IF Len(name) = 0 THEN "Producer name can not be empty"
    ELSE IF Len(name) > MaxNameLen THEN "Producer name should be under 32 characters"
    ELSE IF ~(\A i \in DOMAIN name : name[i] \in Range(LowerLetters) \cup Digits \cup {"_"})
         THEN "Producer name has to include only letters and _"
    ELSE "nil"

Application == <<"a","p","p","l","i","c","a","t","i","o","n">>

Connector == <<"c","o","n","n","e","c","t","o","r">>

\* Faulty variant: every type passes.
validateProducerTypeAny(producerType) == "nil"

validateProducerType(producerType) ==
    IF producerType # Application /\ producerType # Connector
    THEN "Producer type has to be one of the following application/connector"
    ELSE "nil"

(***************************************************************************)
(* The store.                                                              *)
(***************************************************************************)
Store ==
    [connections |-> connections, stations |-> stations, producers |-> producers,
     auditLogs |-> auditLogs, schemas |-> schemas, schemaVersions |-> schemaVersions,
     nextObjectId |-> nextObjectId]

NullId == <<>>

NoSchemaBinding == [name |-> <<>>, version_number |-> 0]

NoStation == [id |-> NullId, name |-> <<>>, created_by_user |-> "", schema |-> NoSchemaBinding]

NoConnection == [id |-> "", is_active |-> FALSE, created_by_user |-> ""]

IsConnectionExist(S, connectionId) ==
    IF connectionId \in DOMAIN S.connections
    THEN [exist |-> TRUE,
          connection |-> [id |-> connectionId,
                          is_active |-> S.connections[connectionId].is_active,
                          created_by_user |-> S.connections[connectionId].created_by_user]]
    ELSE [exist |-> FALSE, connection |-> NoConnection]

IsStationExist(S, stationName) ==
    IF \E st \in S.stations : st.name = stationName
    THEN [exist |-> TRUE, station |-> CHOOSE st \in S.stations : st.name = stationName]
    ELSE [exist |-> FALSE, station |-> NoStation]

\* A station row's id is its name: names are unique and no station is removed.
CreateDefaultStation(S, stationName, username) ==
    IF \E st \in S.stations : st.name = stationName
    THEN S.stations
    ELSE S.stations \cup {[id |-> stationName, name |-> stationName, created_by_user |-> username,
                           schema |-> NoSchemaBinding]}

IsProducerExist(S, name, stationId) ==
    \E i \in DOMAIN S.producers :
        /\ S.producers[i].name = name
        /\ S.producers[i].station_id = stationId
        /\ ~S.producers[i].is_deleted

AuditLog(stationName, message, username, userType) ==
    [station_name |-> stationName, message |-> message,
     created_by_user |-> username, user_type |-> userType]

CreateAuditLogs(S, logs) == S.auditLogs \o logs

(***************************************************************************)
(* Task frames.                                                            *)
(***************************************************************************)
IdleFrame == [op |-> "none", pc |-> "idle", req |-> <<>>, loc |-> <<>>, result |-> "none"]

Frame(op, pc, req) == [op |-> op, pc |-> pc, req |-> req, loc |-> <<>>, result |-> "none"]

Return(f, result) == [f EXCEPT !.pc = "done", !.loc = <<>>, !.result = result]

Goto(f, pc, loc) == [f EXCEPT !.pc = pc, !.loc = loc]

Running(f) == f.pc \notin {"idle", "done"}

(***************************************************************************)
(* Store calls that fail.  A request may name the store call that fails    *)
(* while it is served; a failed call changes nothing in the store and      *)
(* hands its error to the handler.                                         *)
(***************************************************************************)
StoreError == "store error"

\* Faulty variant: no call ever fails.
CallFailsNever(f) == FALSE

CallFails(f) == "fail" \in DOMAIN f.req /\ f.req.fail = f.pc

\* Faulty variant: the error of CreateAuditLogs is returned to the caller.
ReturnAuditError(f) == IF CallFails(f) THEN Return(f, StoreError) ELSE Return(f, "nil")

\* c.AbortWithStatusJSON(status, gin.H{"message": message}): the handler ends,
\* the reply's message is its result and the reply's status stays in loc.
AbortWithStatusJSON(f, status, message) ==
    [f EXCEPT !.pc = "done", !.loc = [status |-> status], !.result = message]

\* CreateAuditLogs' error is logged, and the handler returns nil all the same.
ReturnNil(f) == Return(f, "nil")

(***************************************************************************)
(* createProducerDirect                                                    *)
(***************************************************************************)
\* Faulty variant: the row is inserted with is_active = false.
NewProducerInactive(S, name, station, producerType, connection) ==
    [name |-> name, station_id |-> station.id, type |-> producerType,
     connection_id |-> connection.id, created_by_user |-> connection.created_by_user,
     is_active |-> FALSE, creation_date |-> Len(S.producers) + 1, is_deleted |-> FALSE]

NewProducer(S, name, station, producerType, connection) ==
    [name |-> name, station_id |-> station.id, type |-> producerType,
     connection_id |-> connection.id, created_by_user |-> connection.created_by_user,
     is_active |-> TRUE, creation_date |-> Len(S.producers) + 1, is_deleted |-> FALSE]

createProducerDirectStep(S, f) ==
    LET name == ToLower(f.req.name)
        producerType == ToLower(f.req.producer_type)
        stationName == ToLower(f.req.station_name)
    IN  CASE f.pc = "IsConnectionExist" ->
               IF validateProducerName(name) # "nil"
               THEN [S |-> S, f |-> Return(f, validateProducerName(name))]
               ELSE IF validateProducerType(producerType) # "nil"
               THEN [S |-> S, f |-> Return(f, validateProducerType(producerType))]
               ELSE IF CallFails(f)
               THEN [S |-> S, f |-> Return(f, StoreError)]
               ELSE LET r == IsConnectionExist(S, f.req.connection_id)
                    IN  IF ~r.exist
                        THEN [S |-> S, f |-> Return(f, "memphis: connection id was not found")]
                        ELSE IF ~r.connection.is_active
                        THEN [S |-> S, f |-> Return(f, "memphis: connection id is not active")]
                        ELSE [S |-> S,
                              f |-> Goto(f, "IsStationExist",
                                         [connection |-> r.connection, station |-> NoStation])]
          [] f.pc = "IsStationExist" ->
               LET r == IsStationExist(S, stationName)
               IN  IF CallFails(f)
                   THEN [S |-> S, f |-> Return(f, StoreError)]
                   ELSE IF r.exist
                   THEN [S |-> S, f |-> Goto(f, "IsProducerExist", [f.loc EXCEPT !.station = r.station])]
                   ELSE [S |-> S, f |-> Goto(f, "CreateDefaultStation", f.loc)]
          [] f.pc = "CreateDefaultStation" ->
               IF CallFails(f) THEN [S |-> S, f |-> Return(f, StoreError)]
               ELSE
               LET S1 == [S EXCEPT !.stations =
                              CreateDefaultStation(S, stationName, f.loc.connection.created_by_user)]
               IN  [S |-> S1,
                    f |-> Goto(f, "CreateAuditLogsStation",
                               [f.loc EXCEPT !.station = IsStationExist(S1, stationName).station])]
          [] f.pc = "CreateAuditLogsStation" ->
               IF CallFails(f) THEN [S |-> S, f |-> Goto(f, "IsProducerExist", f.loc)]
               ELSE
               [S |-> [S EXCEPT !.auditLogs = CreateAuditLogs(S,
                           <<AuditLog(stationName, <<"Station", stationName, "has been created">>,
                                      f.req.username, "application")>>)],
                f |-> Goto(f, "IsProducerExist", f.loc)]
          [] f.pc = "IsProducerExist" ->
               IF CallFails(f) THEN [S |-> S, f |-> Return(f, StoreError)]
               ELSE IF IsProducerExist(S, name, f.loc.station.id)
               THEN [S |-> S, f |-> Return(f, "memphis: producer name has to be unique per station")]
               ELSE [S |-> S, f |-> Goto(f, "InsertOne", f.loc)]
          [] f.pc = "InsertOne" ->
               IF CallFails(f) THEN [S |-> S, f |-> Return(f, StoreError)]
               ELSE
               [S |-> [S EXCEPT !.producers =
                           Append(S.producers,
                                  NewProducer(S, name, f.loc.station, producerType,
                                              f.loc.connection))],
                f |-> Goto(f, "CreateAuditLogsProducer", f.loc)]
          [] f.pc = "CreateAuditLogsProducer" ->
               IF CallFails(f) THEN [S |-> S, f |-> ReturnNil(f)]
               ELSE
               [S |-> [S EXCEPT !.auditLogs = CreateAuditLogs(S,
                           <<AuditLog(stationName, <<"Producer", name, "has been created">>,
                                      f.req.username, "application")>>)],
                f |-> ReturnNil(f)]

(***************************************************************************)
(* GetProducersByStation                                                   *)
(***************************************************************************)
\* Faulty variant: the oldest row first.
RECURSIVE SortByCreationDateAsc(_)
SortByCreationDateAsc(rows) ==
    IF rows = {} THEN <<>>
    ELSE LET oldest == CHOOSE r \in rows : \A o \in rows : r.creation_date <= o.creation_date
         IN  <<oldest>> \o SortByCreationDateAsc(rows \ {oldest})

RECURSIVE SortByCreationDateDesc(_)
SortByCreationDateDesc(rows) ==
    IF rows = {} THEN <<>>
    ELSE LET newest == CHOOSE r \in rows : \A o \in rows : o.creation_date <= r.creation_date
         IN  <<newest>> \o SortByCreationDateDesc(rows \ {newest})

\* Faulty variant: the loop without the producersNames check.
DedupByNameKeepAll(rows, producersNames) == rows

RECURSIVE DedupByName(_, _)
DedupByName(rows, producersNames) ==
    IF rows = <<>> THEN <<>>
    ELSE IF Head(rows).name \in producersNames
         THEN DedupByName(Tail(rows), producersNames)
         ELSE <<Head(rows)>> \o DedupByName(Tail(rows), producersNames \cup {Head(rows).name})

SelectRows(rows, Test(_)) == SelectSeq(rows, Test)

GetProducersByStation(S, stationId) ==
    LET matched == {[id |-> i] @@ S.producers[i] :
                        i \in {j \in DOMAIN S.producers : S.producers[j].station_id = stationId}}
        kept == DedupByName(SortByCreationDateDesc(matched), {})
        IsConnected(p) == p.is_active
        IsDisconnected(p) == ~p.is_active /\ ~p.is_deleted
        IsDeleted(p) == ~p.is_active /\ p.is_deleted
    IN  [connected |-> SortByCreationDateDesc(Range(SelectRows(kept, IsConnected))),
         disconnected |-> SortByCreationDateDesc(Range(SelectRows(kept, IsDisconnected))),
         deleted |-> SortByCreationDateDesc(Range(SelectRows(kept, IsDeleted)))]

(***************************************************************************)
(* destroyProducerDirect                                                   *)
(***************************************************************************)
\* Faulty variant: the filter without is_active = true.
DestroyFilterAnyState(P, name, stationId) ==
    {i \in DOMAIN P : P[i].name = name /\ P[i].station_id = stationId}

DestroyFilter(P, name, stationId) ==
    {i \in DOMAIN P : P[i].name = name /\ P[i].station_id = stationId /\ P[i].is_active}

\* Faulty variant: the update leaves is_active as it is.
DestroyUpdateStillActive(row) == [row EXCEPT !.is_deleted = TRUE]

DestroyUpdate(row) == [row EXCEPT !.is_active = FALSE, !.is_deleted = TRUE]

\* FindOneAndUpdate: the first matching document, in the collection's order.
FindOneAndUpdateProducer(P, name, stationId) ==
    LET hit == DestroyFilter(P, name, stationId)
    IN  IF hit = {} THEN P
        ELSE LET i == CHOOSE k \in hit : \A o \in hit : k <= o
             IN  [P EXCEPT ![i] = DestroyUpdate(P[i])]

destroyProducerDirectStep(S, f) ==
    LET stationName == ToLower(f.req.station_name)
        name == ToLower(f.req.producer_name)
    IN  CASE f.pc = "IsStationExist" ->
               IF CallFails(f) THEN [S |-> S, f |-> Return(f, StoreError)]
               ELSE
               [S |-> S, f |-> Goto(f, "FindOneAndUpdate",
                                    [station |-> IsStationExist(S, stationName).station])]
          [] f.pc = "FindOneAndUpdate" ->
               IF CallFails(f) THEN [S |-> S, f |-> Return(f, StoreError)]
               ELSE IF DestroyFilter(S.producers, name, f.loc.station.id) = {}
               THEN [S |-> S, f |-> Return(f, "Producer does not exist")]
               ELSE [S |-> [S EXCEPT !.producers =
                                FindOneAndUpdateProducer(S.producers, name, f.loc.station.id)],
                     f |-> Goto(f, "CreateAuditLogs", f.loc)]
          [] f.pc = "CreateAuditLogs" ->
               IF CallFails(f) THEN [S |-> S, f |-> ReturnNil(f)]
               ELSE
               [S |-> [S EXCEPT !.auditLogs = CreateAuditLogs(S,
                           <<AuditLog(stationName, <<"Producer", name, "has been deleted">>,
                                      f.req.username, "application")>>)],
                f |-> ReturnNil(f)]

(***************************************************************************)
(* KillProducers                                                           *)
(***************************************************************************)
\* Faulty variant: the find's filter without is_active = true.
KillFindAnyState(P, connectionId) ==
    SelectSeq([i \in DOMAIN P |-> [id |-> i] @@ P[i]],
              LAMBDA p : p.connection_id = connectionId)

KillFind(P, connectionId) ==
    SelectSeq([i \in DOMAIN P |-> [id |-> i] @@ P[i]],
              LAMBDA p : p.connection_id = connectionId /\ p.is_active)

\* Faulty variant: the update's filter without the connection id.
KillUpdateManyAnyConnection(P, connectionId) ==
    [i \in DOMAIN P |-> [P[i] EXCEPT !.is_active = FALSE]]

KillUpdateMany(P, connectionId) ==
    [i \in DOMAIN P |->
        IF P[i].connection_id = connectionId THEN [P[i] EXCEPT !.is_active = FALSE] ELSE P[i]]

FindStationById(S, stationId) ==
    IF \E st \in S.stations : st.id = stationId
    THEN CHOOSE st \in S.stations : st.id = stationId
    ELSE NoStation

\* Faulty variant: a record for the first producer only.
KillAuditLogsFirstOnly(found, station) ==
    <<AuditLog(station.name, <<"Producer", found[1].name, "has been disconnected">>,
               found[1].created_by_user,
               IF found[1].created_by_user = "root" THEN "root" ELSE "application")>>

KillAuditLogs(found, station) ==
    [i \in DOMAIN found |->
        AuditLog(station.name, <<"Producer", found[i].name, "has been disconnected">>,
                 found[1].created_by_user,
                 IF found[1].created_by_user = "root" THEN "root" ELSE "application")]

KillProducersStep(S, f) ==
    CASE f.pc = "Find" ->
           LET found == KillFind(S.producers, f.req.connection_id)
           IN  IF Len(found) > 0
               THEN [S |-> S, f |-> Goto(f, "FindOneStation", [producers |-> found, station |-> NoStation])]
               ELSE [S |-> S, f |-> Return(f, "nil")]
      [] f.pc = "FindOneStation" ->
           IF CallFails(f) THEN [S |-> S, f |-> Goto(f, "UpdateMany", f.loc)]
           ELSE
           [S |-> S,
            f |-> Goto(f, "UpdateMany",
                       [f.loc EXCEPT !.station = FindStationById(S, f.loc.producers[1].station_id)])]
      [] f.pc = "UpdateMany" ->
           IF CallFails(f) THEN [S |-> S, f |-> Return(f, StoreError)]
           ELSE
           [S |-> [S EXCEPT !.producers = KillUpdateMany(S.producers, f.req.connection_id)],
            f |-> Goto(f, "CreateAuditLogs", f.loc)]
      [] f.pc = "CreateAuditLogs" ->
           IF CallFails(f) THEN [S |-> S, f |-> ReturnNil(f)]
           ELSE
           [S |-> [S EXCEPT !.auditLogs =
                       CreateAuditLogs(S, KillAuditLogs(f.loc.producers, f.loc.station))],
            f |-> ReturnNil(f)]

(***************************************************************************)
(* ReliveProducers                                                         *)
(***************************************************************************)
\* Faulty variant: the update's filter without is_deleted = false.
ReliveUpdateManyAnyRow(P, connectionId) ==
    [i \in DOMAIN P |->
        IF P[i].connection_id = connectionId
        THEN [P[i] EXCEPT !.is_active = TRUE]
        ELSE P[i]]

ReliveUpdateMany(P, connectionId) ==
    [i \in DOMAIN P |->
        IF P[i].connection_id = connectionId /\ ~P[i].is_deleted
        THEN [P[i] EXCEPT !.is_active = TRUE]
        ELSE P[i]]

ReliveProducersStep(S, f) ==
    [S |-> [S EXCEPT !.producers = ReliveUpdateMany(S.producers, f.req.connection_id)],
     f |-> Return(f, "nil")]

(***************************************************************************)
(* Schema validators                                                       *)
(***************************************************************************)
Protobuf == <<"p","r","o","t","o","b","u","f">>

Avro == <<"a","v","r","o">>

Json == <<"j","s","o","n">>

validateName(name, objectName) ==
    IF Len(name) = 0 THEN "name can not be empty"
    ELSE IF Len(name) > MaxNameLen THEN "name should be under 32 characters"
    ELSE IF ~(\A i \in DOMAIN name : name[i] \in Range(LowerLetters) \cup Digits \cup {"_"})
         THEN "name has to include only letters, numbers and _"
    ELSE "nil"

validateSchemaName(schemaName) == validateName(schemaName, "Schema")

\* Faulty variant: avro and json pass.
validateSchemaTypeLenient(schemaType) ==
    IF schemaType \in {Protobuf, Avro, Json} THEN "nil" ELSE "unsupported schema type"

validateSchemaType(schemaType) ==
    IF schemaType = Protobuf THEN "nil"
    ELSE IF schemaType = Avro \/ schemaType = Json
         THEN "Json/Avro types are not supported at this time"
    ELSE "unsupported schema type"

\* The protobuf parser is a library: a content either parses or does not.
ParsableProto == {<<"m", "1">>, <<"m", "2">>}

validateProtobufContent(schemaContent) ==
    IF schemaContent \in ParsableProto THEN "nil" ELSE "Your Proto file is invalid"

validateSchemaContent(schemaContent, schemaType) ==
    IF Len(schemaContent) = 0 THEN "Your schema content is invalid"
    ELSE IF schemaType = Protobuf THEN validateProtobufContent(schemaContent)
    ELSE "nil"

validateMessageStructName(messageStructName) ==
    IF messageStructName = <<>>
    THEN "Message struct name is required when schema type is Protobuf"
    ELSE "nil"

(***************************************************************************)
(* Schema store helpers                                                    *)
(***************************************************************************)
NoSchema == [id |-> 0, name |-> <<>>, type |-> <<>>]

IsSchemaExist(S, schemaName) ==
    IF \E sc \in S.schemas : sc.name = schemaName
    THEN [exist |-> TRUE, schema |-> CHOOSE sc \in S.schemas : sc.name = schemaName]
    ELSE [exist |-> FALSE, schema |-> NoSchema]

isSchemaVersionExists(S, versionNumber, schemaId) ==
    \E i \in DOMAIN S.schemaVersions :
        /\ S.schemaVersions[i].schema_id = schemaId
        /\ S.schemaVersions[i].version_number = versionNumber

VersionsOf(V, schemaId) == {i \in DOMAIN V : V[i].schema_id = schemaId}

getVersionsCount(S, schemaId) == Cardinality(VersionsOf(S.schemaVersions, schemaId))

\* Faulty variant: the update flips the flag instead of clearing it.
ClearActiveFlip(V, schemaId) ==
    [i \in DOMAIN V |->
        IF V[i].schema_id = schemaId THEN [V[i] EXCEPT !.active = ~V[i].active] ELSE V[i]]

\* Faulty variant: the update's filter without the schema id.
ClearActiveAnySchema(V, schemaId) == [i \in DOMAIN V |-> [V[i] EXCEPT !.active = FALSE]]

ClearActive(V, schemaId) ==
    [i \in DOMAIN V |->
        IF V[i].schema_id = schemaId THEN [V[i] EXCEPT !.active = FALSE] ELSE V[i]]

\* UpdateOne: the first matching document, in the collection's order.
SetActive(V, schemaId, versionNumber) ==
    LET hit == {i \in VersionsOf(V, schemaId) : V[i].version_number = versionNumber}
    IN  IF hit = {} THEN V
        ELSE LET i == CHOOSE k \in hit : \A o \in hit : k <= o
             IN  [V EXCEPT ![i] = [V[i] EXCEPT !.active = TRUE]]

updateActiveVersion(V, schemaId, versionNumber) ==
    SetActive(ClearActive(V, schemaId), schemaId, versionNumber)

NewSchemaVersion(S, schemaId, versionNumber, active, req) ==
    [schema_id |-> schemaId, version_number |-> versionNumber, active |-> active,
     created_by_user |-> req.username, creation_date |-> Len(S.schemaVersions) + 1,
     schema_content |-> req.schema_content, message_struct_name |-> req.message_struct_name]

\* Faulty variant: a plain insert in place of the upsert.
UpsertSchemaAlwaysInsert(S, newSchema) ==
    [matched |-> 0, schemas |-> S.schemas \cup {newSchema}]

\* Faulty variant: the upsert overwrites the matched row.
UpsertSchemaOverwrite(S, newSchema) ==
    IF \E sc \in S.schemas : sc.name = newSchema.name
    THEN [matched |-> 1,
          schemas |-> {sc \in S.schemas : sc.name # newSchema.name} \cup {newSchema}]
    ELSE [matched |-> 0, schemas |-> S.schemas \cup {newSchema}]

\* Faulty variant: the row the upsert inserts is not kept.
UpsertSchemaNoRow(S, newSchema) ==
    [matched |-> IF \E sc \in S.schemas : sc.name = newSchema.name THEN 1 ELSE 0,
     schemas |-> S.schemas]

\* upsert with $setOnInsert on the filter {name}
UpsertSchema(S, newSchema) ==
    IF \E sc \in S.schemas : sc.name = newSchema.name
    THEN [matched |-> 1, schemas |-> S.schemas]
    ELSE [matched |-> 0, schemas |-> S.schemas \cup {newSchema}]

\* Faulty variant: a plain insert in place of the upsert.
UpsertSchemaVersionAlwaysInsert(S, newSchemaVersion) ==
    [matched |-> 0, schemaVersions |-> Append(S.schemaVersions, newSchemaVersion)]

\* Faulty variant: the inserted version is active.
UpsertSchemaVersionActive(S, newSchemaVersion) ==
    IF isSchemaVersionExists(S, newSchemaVersion.version_number, newSchemaVersion.schema_id)
    THEN [matched |-> 1, schemaVersions |-> S.schemaVersions]
    ELSE [matched |-> 0,
          schemaVersions |-> Append(S.schemaVersions, [newSchemaVersion EXCEPT !.active = TRUE])]

\* upsert with $setOnInsert on the filter {schema_id, version_number}
UpsertSchemaVersion(S, newSchemaVersion) ==
    IF isSchemaVersionExists(S, newSchemaVersion.version_number, newSchemaVersion.schema_id)
    THEN [matched |-> 1, schemaVersions |-> S.schemaVersions]
    ELSE [matched |-> 0, schemaVersions |-> Append(S.schemaVersions, newSchemaVersion)]

\* Faulty variant: the bindings are left as they are.
deleteSchemaFromStationNone(S, schemaName) == S.stations

deleteSchemaFromStation(S, schemaName) ==
    {IF st.schema.name = schemaName THEN [st EXCEPT !.schema = NoSchemaBinding] ELSE st :
        st \in S.stations}

\* Faulty variant: the filter on schema_id is dropped.
DeleteManyVersionsAll(V, schemaIds) == <<>>

DeleteManyVersions(V, schemaIds) == SelectSeq(V, LAMBDA v : v.schema_id \notin schemaIds)

DeleteManySchemas(Sc, schemaIds) == {sc \in Sc : sc.id \notin schemaIds}

(***************************************************************************)
(* CreateNewSchema                                                         *)
(***************************************************************************)
CreateNewSchemaStep(S, f) ==
    LET schemaName == ToLower(f.req.name)
        schemaType == ToLower(f.req.type)
    IN  CASE f.pc = "IsSchemaExist" ->
               IF validateSchemaName(schemaName) # "nil"
               THEN [S |-> S, f |-> Return(f, validateSchemaName(schemaName))]
               ELSE IF CallFails(f)
               THEN [S |-> S, f |-> AbortWithStatusJSON(f, 500, "Server Error")]
               ELSE IF IsSchemaExist(S, schemaName).exist
               THEN [S |-> S, f |-> Return(f, "Schema with that name already exists")]
               ELSE IF validateSchemaType(schemaType) # "nil"
               THEN [S |-> S, f |-> Return(f, validateSchemaType(schemaType))]
               ELSE IF schemaType = Protobuf
                       /\ validateMessageStructName(f.req.message_struct_name) # "nil"
               THEN [S |-> S, f |-> Return(f, validateMessageStructName(f.req.message_struct_name))]
               ELSE IF validateSchemaContent(f.req.schema_content, schemaType) # "nil"
               THEN [S |-> S, f |-> Return(f, validateSchemaContent(f.req.schema_content, schemaType))]
               ELSE [S |-> [S EXCEPT !.nextObjectId = S.nextObjectId + 1],
                     f |-> Goto(f, "UpdateOne",
                                [newSchema |-> [id |-> S.nextObjectId, name |-> schemaName,
                                                type |-> schemaType]])]
          [] f.pc = "UpdateOne" ->
               LET r == UpsertSchema(S, f.loc.newSchema)
               IN  IF CallFails(f)
                   THEN [S |-> S, f |-> AbortWithStatusJSON(f, 500, "Server error")]
                   ELSE IF r.matched = 0
                   THEN [S |-> [S EXCEPT !.schemas = r.schemas], f |-> Goto(f, "InsertOne", f.loc)]
                   ELSE [S |-> [S EXCEPT !.schemas = r.schemas],
                         f |-> Return(f, "Schema with that name already exists")]
          [] f.pc = "InsertOne" ->
               IF CallFails(f)
               THEN [S |-> S, f |-> AbortWithStatusJSON(f, 500, "Server error")]
               ELSE [S |-> [S EXCEPT !.schemaVersions =
                               Append(S.schemaVersions,
                                      NewSchemaVersion(S, f.loc.newSchema.id, 1, TRUE, f.req))],
                     f |-> Return(f, "200")]

(***************************************************************************)
(* CreateNewVersion                                                        *)
(***************************************************************************)
CreateNewVersionStep(S, f) ==
    LET schemaName == ToLower(f.req.schema_name)
    IN  CASE f.pc = "IsSchemaExist" ->
               LET r == IsSchemaExist(S, schemaName)
               IN  IF CallFails(f)
                   THEN [S |-> S, f |-> AbortWithStatusJSON(f, 500, "Server Error")]
                   ELSE IF ~r.exist
                   THEN [S |-> S, f |-> Return(f, "Schema does not exist")]
                   ELSE IF r.schema.type = Protobuf
                           /\ validateMessageStructName(f.req.message_struct_name) # "nil"
                   THEN [S |-> S, f |-> Return(f, validateMessageStructName(f.req.message_struct_name))]
                   ELSE IF validateSchemaContent(f.req.schema_content, r.schema.type) # "nil"
                   THEN [S |-> S,
                         f |-> Return(f, validateSchemaContent(f.req.schema_content, r.schema.type))]
                   ELSE [S |-> S,
                         f |-> Goto(f, "CountDocuments", [schema |-> r.schema, countVersions |-> 0])]
          [] f.pc = "CountDocuments" ->
               IF CallFails(f)
               THEN [S |-> S, f |-> AbortWithStatusJSON(f, 500, "Server error")]
               ELSE [S |-> S,
                     f |-> Goto(f, "UpdateOne",
                                [f.loc EXCEPT !.countVersions = getVersionsCount(S, f.loc.schema.id)])]
          [] f.pc = "UpdateOne" ->
               LET r == UpsertSchemaVersion(S,
                            NewSchemaVersion(S, f.loc.schema.id, f.loc.countVersions + 1, FALSE, f.req))
               IN  IF CallFails(f)
                   THEN [S |-> S, f |-> AbortWithStatusJSON(f, 500, "Server error")]
                   ELSE IF r.matched = 0
                   THEN [S |-> [S EXCEPT !.schemaVersions = r.schemaVersions],
                         f |-> Goto(f, "getExtendedSchemaDetails", f.loc)]
                   ELSE [S |-> [S EXCEPT !.schemaVersions = r.schemaVersions],
                         f |-> Return(f, "Version already exists")]
          [] f.pc = "getExtendedSchemaDetails" ->
               IF CallFails(f)
               THEN [S |-> S, f |-> AbortWithStatusJSON(f, 500, "Server error")]
               ELSE [S |-> S, f |-> Return(f, "200")]

(***************************************************************************)
(* RollBackVersion                                                         *)
(***************************************************************************)
RollBackVersionStep(S, f) ==
    LET schemaName == ToLower(f.req.schema_name)
    IN  CASE f.pc = "IsSchemaExist" ->
               LET r == IsSchemaExist(S, schemaName)
               IN  IF CallFails(f)
                   THEN [S |-> S, f |-> AbortWithStatusJSON(f, 500, "Server Error")]
                   ELSE IF ~r.exist
                   THEN [S |-> S, f |-> Return(f, "Schema does not exist")]
                   ELSE [S |-> S, f |-> Goto(f, "isSchemaVersionExists", [schema |-> r.schema])]
          [] f.pc = "isSchemaVersionExists" ->
               IF CallFails(f)
               THEN [S |-> S, f |-> AbortWithStatusJSON(f, 500, "Server error")]
               ELSE IF ~isSchemaVersionExists(S, f.req.version_number, f.loc.schema.id)
               THEN [S |-> S, f |-> Return(f, "Schema version does not exist")]
               ELSE [S |-> S, f |-> Goto(f, "CountDocuments", f.loc)]
          [] f.pc = "CountDocuments" ->
               IF CallFails(f)
               THEN [S |-> S, f |-> AbortWithStatusJSON(f, 500, "Server error")]
               ELSE IF getVersionsCount(S, f.loc.schema.id) > 1
               THEN [S |-> S, f |-> Goto(f, "UpdateMany", f.loc)]
               ELSE [S |-> S, f |-> Goto(f, "getExtendedSchemaDetails", f.loc)]
          [] f.pc = "UpdateMany" ->
               IF CallFails(f)
               THEN [S |-> S, f |-> AbortWithStatusJSON(f, 500, StoreError)]
               ELSE [S |-> [S EXCEPT !.schemaVersions = ClearActive(S.schemaVersions, f.loc.schema.id)],
                     f |-> Goto(f, "UpdateOne", f.loc)]
          [] f.pc = "UpdateOne" ->
               IF CallFails(f)
               THEN [S |-> S, f |-> AbortWithStatusJSON(f, 500, StoreError)]
               ELSE [S |-> [S EXCEPT !.schemaVersions =
                               SetActive(S.schemaVersions, f.loc.schema.id, f.req.version_number)],
                     f |-> Goto(f, "getExtendedSchemaDetails", f.loc)]
          [] f.pc = "getExtendedSchemaDetails" ->
               IF CallFails(f)
               THEN [S |-> S, f |-> AbortWithStatusJSON(f, 500, "Server error")]
               ELSE [S |-> S, f |-> Return(f, "200")]

(***************************************************************************)
(* getExtendedSchemaDetailsUpdateAvailable                                 *)
(***************************************************************************)
ErrNoDocuments == "mongo: no documents in result"

\* FindOne: the first of the documents hit, in the collection's order; 0 when
\* there is none.
FindOne(hit) == IF hit = {} THEN 0 ELSE CHOOSE k \in hit : \A o \in hit : k <= o

GetSchemaVersion(S, stationVersion, schemaId) ==
    FindOne({i \in VersionsOf(S.schemaVersions, schemaId) :
                S.schemaVersions[i].version_number = stationVersion})

\* Faulty variant: the filter without active = true.
getAnyVersionBySchemaId(S, schemaId) == FindOne(VersionsOf(S.schemaVersions, schemaId))

getActiveVersionBySchemaId(S, schemaId) ==
    FindOne({i \in VersionsOf(S.schemaVersions, schemaId) : S.schemaVersions[i].active})

\* The versions of the reply stay in loc.
getExtendedSchemaDetailsUpdateAvailableStep(S, f) ==
    CASE f.pc = "GetSchemaVersion" ->
           LET i == GetSchemaVersion(S, f.req.version_number, f.req.schema.id)
           IN  IF i = 0 THEN [S |-> S, f |-> Return(f, ErrNoDocuments)]
               ELSE [S |-> S,
                     f |-> Goto(f, IF S.schemaVersions[i].active THEN "getUsingStationsByName"
                                   ELSE "getActiveVersionBySchemaId",
                                [versions |-> <<S.schemaVersions[i]>>])]
      [] f.pc = "getActiveVersionBySchemaId" ->
           LET i == getActiveVersionBySchemaId(S, f.req.schema.id)
           IN  IF i = 0 THEN [S |-> S, f |-> Return(f, ErrNoDocuments)]
               ELSE [S |-> S,
                     f |-> Goto(f, "getUsingStationsByName",
                                [versions |-> Append(f.loc.versions, S.schemaVersions[i])])]
      [] f.pc = "getUsingStationsByName" ->
           [S |-> S, f |-> [f EXCEPT !.pc = "done", !.result = "nil"]]

(***************************************************************************)
(* GetAllSchemas, GetSchemaDetails                                         *)
(***************************************************************************)
GetAllSchemasStep(S, f) ==
    IF CallFails(f)
    THEN [S |-> S, f |-> AbortWithStatusJSON(f, 500, "Server error")]
    ELSE [S |-> S, f |-> Return(f, "200")]

GetSchemaDetailsStep(S, f) ==
    CASE f.pc = "IsSchemaExist" ->
           IF CallFails(f)
           THEN [S |-> S, f |-> AbortWithStatusJSON(f, 500, "Server error")]
           ELSE IF ~IsSchemaExist(S, ToLower(f.req.schema_name)).exist
           THEN [S |-> S, f |-> Return(f, "Schema does not exist")]
           ELSE [S |-> S, f |-> Goto(f, "getSchemaDetailsBySchemaName", f.loc)]
      [] f.pc = "getSchemaDetailsBySchemaName" ->
           IF CallFails(f)
           THEN [S |-> S, f |-> AbortWithStatusJSON(f, 500, "Server error")]
           ELSE [S |-> S, f |-> Return(f, "200")]

(***************************************************************************)
(* RemoveSchema                                                            *)
(***************************************************************************)
\* After name number i was handled: the next name, or findAndDeleteSchema, or the reply.
RemoveSchemaAdvance(S, f, i, schemaIds) ==
    IF i < Len(f.req.schema_names)
    THEN [S |-> S, f |-> Goto(f, "IsSchemaExist", [i |-> i + 1, schemaIds |-> schemaIds,
                                                     schema |-> NoSchema])]
    ELSE IF schemaIds # {}
    THEN [S |-> S, f |-> Goto(f, "DeleteManyVersions", [i |-> i, schemaIds |-> schemaIds,
                                                          schema |-> NoSchema])]
    ELSE [S |-> S, f |-> Return(f, "200")]

\* A request names the store call that fails during it, if any: the call at
\* position pc while name number i is handled. A failed call changes nothing.
NoFailure == [pc |-> "none", i |-> 0]

StoreFails(f) == f.req.fail = [pc |-> f.pc, i |-> f.loc.i]

RemoveSchemaStep(S, f) ==
    IF StoreFails(f) THEN [S |-> S, f |-> AbortWithStatusJSON(f, 500, "Server error")]
    ELSE
        CASE f.pc = "IsSchemaExist" ->
               LET r == IsSchemaExist(S, ToLower(f.req.schema_names[f.loc.i]))
               IN  IF r.exist
                   THEN [S |-> S, f |-> Goto(f, "deleteSchemaFromStation", [f.loc EXCEPT !.schema = r.schema])]
                   ELSE RemoveSchemaAdvance(S, f, f.loc.i, f.loc.schemaIds)
          [] f.pc = "deleteSchemaFromStation" ->
               LET r == RemoveSchemaAdvance(S, f, f.loc.i, f.loc.schemaIds \cup {f.loc.schema.id})
               IN  [S |-> [S EXCEPT !.stations = deleteSchemaFromStation(S, f.loc.schema.name)],
                    f |-> r.f]
          [] f.pc = "DeleteManyVersions" ->
               [S |-> [S EXCEPT !.schemaVersions = DeleteManyVersions(S.schemaVersions, f.loc.schemaIds)],
                f |-> Goto(f, "DeleteManySchemas", f.loc)]
          [] f.pc = "DeleteManySchemas" ->
               [S |-> [S EXCEPT !.schemas = DeleteManySchemas(S.schemas, f.loc.schemaIds)],
                f |-> Return(f, "200")]

(***************************************************************************)
(* ValidateSchema                                                          *)
(***************************************************************************)
\* The handler makes no store call: one step from the request to the reply.
ValidateSchemaStep(S, f) ==
    LET schemaType == ToLower(f.req.type)
    IN  IF validateSchemaType(schemaType) # "nil"
        THEN [S |-> S, f |-> Return(f, validateSchemaType(schemaType))]
        ELSE IF validateSchemaContent(f.req.schema_content, schemaType) # "nil"
        THEN [S |-> S, f |-> Return(f, validateSchemaContent(f.req.schema_content, schemaType))]
        ELSE [S |-> S, f |-> Return(f, "200")]

(***************************************************************************)
(* Handlers as step functions, and a handler run alone to its end.         *)
(***************************************************************************)
HandlerStep(S, f) ==
    CASE f.op = "createProducerDirect" -> createProducerDirectStep(S, f)
      [] f.op = "destroyProducerDirect" -> destroyProducerDirectStep(S, f)
      [] f.op = "KillProducers" -> KillProducersStep(S, f)
      [] f.op = "ReliveProducers" -> ReliveProducersStep(S, f)
      [] f.op = "CreateNewSchema" -> CreateNewSchemaStep(S, f)
      [] f.op = "CreateNewVersion" -> CreateNewVersionStep(S, f)
      [] f.op = "RollBackVersion" -> RollBackVersionStep(S, f)
      [] f.op = "RemoveSchema" -> RemoveSchemaStep(S, f)
      [] f.op = "ValidateSchema" -> ValidateSchemaStep(S, f)
      [] f.op = "GetAllSchemas" -> GetAllSchemasStep(S, f)
      [] f.op = "GetSchemaDetails" -> GetSchemaDetailsStep(S, f)
      [] f.op = "getExtendedSchemaDetailsUpdateAvailable" ->
           getExtendedSchemaDetailsUpdateAvailableStep(S, f)

FirstPc(op) ==
    CASE op = "createProducerDirect" -> "IsConnectionExist"
      [] op = "destroyProducerDirect" -> "IsStationExist"
      [] op = "KillProducers" -> "Find"
      [] op = "ReliveProducers" -> "UpdateMany"
      [] op \in {"CreateNewSchema", "CreateNewVersion", "RollBackVersion", "RemoveSchema",
                 "GetSchemaDetails"} ->
           "IsSchemaExist"
      [] op = "GetAllSchemas" -> "GetAllSchemasDetails"
      [] op = "getExtendedSchemaDetailsUpdateAvailable" -> "GetSchemaVersion"
      [] op = "ValidateSchema" -> "validateSchemaType"

Call(op, req) ==
    IF op = "RemoveSchema"
    THEN [Frame(op, FirstPc(op), req) EXCEPT
              !.loc = [i |-> 1, schemaIds |-> {}, schema |-> NoSchema]]
    ELSE Frame(op, FirstPc(op), req)

RECURSIVE RunToEnd(_, _)
RunToEnd(S, f) ==
    IF Running(f)
    THEN LET r == HandlerStep(S, f) IN RunToEnd(r.S, r.f)
    ELSE [S |-> S, f |-> f]

\* The handler op(req) run alone on store S: the store it leaves and its result.
Run(S, op, req) == RunToEnd(S, Call(op, req))

(***************************************************************************)
(* Requests                                                                *)
(***************************************************************************)
ProducerNames == {<<"p">>, <<"q">>}

StationNames == {<<"a">>}

ConnectionIds == {"c1", "c2"}

ClientUser == "app"

ValidCreateProducerRequests ==
    [name : ProducerNames, station_name : StationNames, connection_id : ConnectionIds,
     producer_type : {Application}, username : {ClientUser}]

CreateProducerRequests ==
    ValidCreateProducerRequests
    \cup {[name |-> <<"P">>, station_name |-> <<"A">>, connection_id |-> "c1",
           producer_type |-> Application, username |-> ClientUser],
          [name |-> <<>>, station_name |-> <<"a">>, connection_id |-> "c1",
           producer_type |-> Application, username |-> ClientUser],
          [name |-> <<"p">>, station_name |-> <<"a">>, connection_id |-> "c1",
           producer_type |-> <<"x">>, username |-> ClientUser],
          [name |-> <<"p">>, station_name |-> <<"a">>, connection_id |-> "c0",
           producer_type |-> Application, username |-> ClientUser],
          [name |-> <<"p">>, station_name |-> <<"a">>, connection_id |-> "c3",
           producer_type |-> Application, username |-> ClientUser]}

DestroyProducerRequests ==
    [producer_name : ProducerNames, station_name : StationNames, username : {ClientUser}]
    \cup {[producer_name |-> <<"p">>, station_name |-> <<"b">>, username |-> ClientUser]}

ConnectionRequests == [connection_id : ConnectionIds]

\* The same requests, served while the named store call fails ("none": no call).
FailingCreateProducerRequests ==
    [name : ProducerNames, station_name : StationNames, connection_id : {"c1"},
     producer_type : {Application}, username : {ClientUser},
     fail : {"none", "CreateAuditLogsStation", "IsProducerExist", "InsertOne",
             "CreateAuditLogsProducer"}]

FailingDestroyProducerRequests ==
    [producer_name : ProducerNames, station_name : StationNames, username : {ClientUser},
     fail : {"none", "CreateAuditLogs"}]

FailingConnectionRequests == [connection_id : {"c1"}, fail : {"none", "CreateAuditLogs"}]

SchemaUser == "admin"

SeedUser == "root"

ValidCreateSchemaRequests ==
    [name : {<<"s">>, <<"S">>}, type : {Protobuf}, schema_content : ParsableProto,
     message_struct_name : {<<"m">>}, username : {SchemaUser}]

CreateSchemaRequests ==
    [name : {<<"s">>}, type : {Protobuf}, schema_content : {<<"m", "1">>},
     message_struct_name : {<<"m">>}, username : {SchemaUser}]
    \cup {[name |-> <<"s">>, type |-> Avro, schema_content |-> <<"m", "1">>,
           message_struct_name |-> <<"m">>, username |-> SchemaUser],
          [name |-> <<"s">>, type |-> Protobuf, schema_content |-> <<>>,
           message_struct_name |-> <<"m">>, username |-> SchemaUser]}

SchemaTypes ==
    {Protobuf, Avro, Json, <<"P","r","o","t","o","b","u","f">>, <<"J","S","O","N">>,
     <<"p","r","o","t","o">>, <<"x">>, <<>>}

SchemaContents == ParsableProto \cup {<<"z">>, <<>>}

ValidateSchemaRequests ==
    [type : SchemaTypes, schema_content : SchemaContents, message_struct_name : {<<"m">>, <<>>}]

\* The validations the concurrent tasks ask for.
ValidateSchemaCalls ==
    [type : {Protobuf, Avro}, schema_content : {<<"m", "1">>, <<>>}, message_struct_name : {<<>>}]

CreateVersionRequests ==
    [schema_name : {<<"s">>}, schema_content : {<<"m", "2">>},
     message_struct_name : {<<"m">>}, username : {SchemaUser}]

RollBackRequests == [schema_name : {<<"s">>}, version_number : 1..MaxVersions]

RemoveSchemaRequests == {[schema_names |-> <<<<"s">>>>, fail |-> NoFailure]}

\* Removals of one or two names, with or without a store call that fails.
RemoveSchemasNames == {<<<<"s">>>>, <<<<"r">>>>, <<<<"s">>, <<"r">>>>, <<<<"S">>, <<"x">>>>}

StoreFailures ==
    [pc : {"IsSchemaExist", "deleteSchemaFromStation", "DeleteManyVersions", "DeleteManySchemas"},
     i : 1..2]

RemoveSchemasRequests ==
    [schema_names : RemoveSchemasNames, fail : {NoFailure} \cup StoreFailures]

\* The removals the concurrent tasks make.
RemoveSchemasRaceRequests ==
    [schema_names : {<<<<"s">>>>, <<<<"s">>, <<"r">>>>},
     fail : {NoFailure, [pc |-> "deleteSchemaFromStation", i |-> 2],
             [pc |-> "DeleteManySchemas", i |-> 1]}]

\* Schema requests during which a store call may fail.
FailingCreateSchemaRequests ==
    [name : {<<"s">>, <<"S">>}, type : {Protobuf}, schema_content : {<<"m", "1">>},
     message_struct_name : {<<"m">>}, username : {SchemaUser},
     fail : {"none", "IsSchemaExist", "UpdateOne", "InsertOne"}]

\* Requests of a type that validateSchemaType refuses; no store call fails.
RefusedTypeRequests ==
    [name : {<<"n">>}, type : {Avro, <<"x">>}, schema_content : {<<"m", "1">>},
     message_struct_name : {<<"m">>}, username : {SchemaUser}, fail : {"none"}]

FailingCreateVersionRequests ==
    [schema_name : {<<"s">>}, schema_content : {<<"m", "2">>},
     message_struct_name : {<<"m">>}, username : {SchemaUser},
     fail : {"none", "IsSchemaExist", "CountDocuments", "UpdateOne", "getExtendedSchemaDetails"}]

FailingRollBackRequests ==
    [schema_name : {<<"s">>}, version_number : 1..MaxVersions,
     fail : {"none", "IsSchemaExist", "isSchemaVersionExists", "CountDocuments", "UpdateMany",
             "UpdateOne", "getExtendedSchemaDetails"}]

FailingGetSchemaDetailsRequests ==
    [schema_name : {<<"s">>, <<"x">>},
     fail : {"none", "IsSchemaExist", "getSchemaDetailsBySchemaName"}]

FailingGetAllSchemasRequests == [fail : {"none", "GetAllSchemasDetails"}]

FailingRemoveSchemaRequests ==
    [schema_names : {<<<<"s">>>>},
     fail : {NoFailure} \cup [pc : {"IsSchemaExist", "deleteSchemaFromStation",
                                     "DeleteManyVersions", "DeleteManySchemas"}, i : {1}]]

(***************************************************************************)
(* The overview broadcaster (InitializeSocketio).  A room's name is its     *)
(* prefix followed by the scope's name as the client sent it.              *)
(***************************************************************************)
Sockets == {"k1", "k2"}

\* The sockets that also register for the factories, a factory or a station.
ScopeClients == {"k1"}

MainRoom == <<"main_overview_sockets_group">>

FactoriesRoom == <<"factories_overview_sockets_group">>

StationPrefix == "station_overview_group_"

FactoryPrefix == "factory_overview_group_"

RoomName(kind, name) ==
    CASE kind = "main" -> MainRoom
      [] kind = "factories" -> FactoriesRoom
      [] kind = "factory" -> <<FactoryPrefix, name>>
      [] kind = "station" -> <<StationPrefix, name>>

HasPrefix(room, prefix) == Len(room) = 2 /\ room[1] = prefix

\* strings.Split(room, prefix)[1]
SplitName(room, prefix) == room[2]

\* Faulty variant: every room counts as populated.
RoomLenAtLeastOne(R, room) == Cardinality({m \in R : m[1] = room}) + 1

\* server.RoomLen
RoomLen(R, room) == Cardinality({m \in R : m[1] = room})

\* server.Rooms: the rooms that have a member
Rooms(R) == {m[1] : m \in R}

\* s.LeaveAll
\* Faulty variant: the socket stays in its rooms.
LeaveNone(R, s) == R

LeaveAll(R, s) == {m \in R : m[2] # s}

\* s.Join
Join(R, s, room) == R \cup {<<room, s>>}

\* The event that carries a scope's snapshot.
DataEvent(kind) ==
    CASE kind = "main" -> "main_overview_data"
      [] kind = "factories" -> "factories_overview_data"
      [] kind = "factory" -> "factory_overview_data"
      [] kind = "station" -> "station_overview_data"

\* Faulty variant: nothing is sent.
EmitNothing(E, s, kind, data) == E

\* s.Emit
Emit(E, s, kind, data) == [E EXCEPT ![s] = Append(@, [event |-> DataEvent(kind), data |-> data])]

\* Faulty variant: the broadcast reaches nobody.
BroadcastToNobody(E, R, room, kind, data) == E

\* server.BroadcastToRoom: to the members the room has when it is called
BroadcastToRoom(E, R, room, kind, data) ==
    [s \in DOMAIN E |->
        IF <<room, s>> \in R THEN Append(E[s], [event |-> DataEvent(kind), data |-> data])
        ELSE E[s]]

\* The factories of the store: their handler keeps them.
Factories == {<<"f">>}

NoData == [scope |-> "none"]

getMainOverviewData == [scope |-> "main", total_stations |-> 13, total_messages |-> 12000]

\* A snapshot's computation: the scope, the position in the computation, the
\* station found and the data.  Position "ok" ends it with the data, position
\* "err" ends it with an error.
Snapshot(kind, name) ==
    [kind |-> kind, name |-> name, station |-> NoStation, data |-> NoData,
     pc |-> CASE kind = "main" -> "ok"
              [] kind = "factories" -> "GetAllFactoriesDetails"
              [] kind = "factory" -> "GetFactoryDetails"
              [] kind = "station" -> "IsStationExist"]

Computing(c) == c.pc \notin {"ok", "err", "none"}

NoSnapshot == [Snapshot("main", <<>>) EXCEPT !.pc = "none"]

\* consumersHandler.GetConsumersByStation: the consumers collection, which no
\* operation of the model writes.
GetConsumersByStation(S, id) == <<>>

\* stationOverviewData{}: what a station's snapshot is when a read after
\* IsStationExist fails.
EmptyStationData(name) ==
    [scope |-> "station", name |-> name, producers |-> <<>>, consumers |-> <<>>]

\* One store call of the computation; fails tells whether the store answers
\* with an error.
SnapshotStep(S, c, fails) ==
    CASE c.pc = "GetAllFactoriesDetails" ->
           IF fails THEN [c EXCEPT !.pc = "err"]
           ELSE [c EXCEPT !.pc = "ok", !.data = [scope |-> "factories", factories |-> Factories]]
      [] c.pc = "GetFactoryDetails" ->
           IF fails \/ ToLower(c.name) \notin Factories THEN [c EXCEPT !.pc = "err"]
           ELSE [c EXCEPT !.pc = "ok", !.data = [scope |-> "factory", name |-> ToLower(c.name)]]
      [] c.pc = "IsStationExist" ->
           LET r == IsStationExist(S, ToLower(c.name))
           IN  IF fails \/ ~r.exist THEN [c EXCEPT !.pc = "err"]
               ELSE [c EXCEPT !.pc = "GetProducersByStation", !.station = r.station]
      [] c.pc = "GetProducersByStation" ->
           IF fails THEN [c EXCEPT !.pc = "ok", !.data = EmptyStationData(c.station.name)]
           ELSE [c EXCEPT !.pc = "GetConsumersByStation",
                          !.data = [EmptyStationData(c.station.name) EXCEPT
                                      !.producers = GetProducersByStation(S, c.station.id)]]
      [] c.pc = "GetConsumersByStation" ->
           IF fails THEN [c EXCEPT !.pc = "ok", !.data = EmptyStationData(c.station.name)]
           ELSE [c EXCEPT !.pc = "ok",
                          !.data.consumers = GetConsumersByStation(S, c.station.id)]

\* The data of a computation that is local: it is there at once.
Computed(c) == IF c.kind = "main" THEN [c EXCEPT !.data = getMainOverviewData] ELSE c

IdleConn == [pc |-> "idle", event |-> "none", snapshot |-> NoSnapshot]

IdleTicker == [pc |-> "wait", room |-> <<>>, snapshot |-> NoSnapshot, next |-> "wait", todo |-> {}]

InitSocketio ==
    /\ rooms = {}
    /\ conns = [s \in Sockets |-> IdleConn]
    /\ emitted = [s \in Sockets |-> <<>>]
    /\ ticker = IdleTicker

(***************************************************************************)
(* Initial states                                                          *)
(***************************************************************************)
InitStore ==
    [connections |-> [c \in {"c1", "c2", "c3"} |->
                        [is_active |-> c # "c3",
                         created_by_user |-> IF c = "c1" THEN "root" ELSE "user"]],
     stations |-> {},
     producers |-> <<>>,
     auditLogs |-> <<>>,
     schemas |-> {},
     schemaVersions |-> <<>>,
     nextObjectId |-> 1]

SetStore(S) ==
    /\ connections = S.connections
    /\ stations = S.stations
    /\ producers = S.producers
    /\ auditLogs = S.auditLogs
    /\ schemas = S.schemas
    /\ schemaVersions = S.schemaVersions
    /\ nextObjectId = S.nextObjectId

Init ==
    /\ SetStore(InitStore)
    /\ tasks = [t \in Tasks |-> IdleFrame]
    /\ InitSocketio

\* The store after schema "s" was created and brought to k versions by SeedUser.
RECURSIVE SeedStore(_)
SeedStore(k) ==
    IF k = 1
    THEN Run(InitStore, "CreateNewSchema",
             [name |-> <<"s">>, type |-> Protobuf, schema_content |-> <<"m", "1">>,
              message_struct_name |-> <<"m">>, username |-> SeedUser]).S
    ELSE Run(SeedStore(k - 1), "CreateNewVersion",
             [schema_name |-> <<"s">>, schema_content |-> <<"m", "1">>,
              message_struct_name |-> <<"m">>, username |-> SeedUser]).S

InitVersions ==
    /\ \E k \in 1..MaxSeedVersions : SetStore(SeedStore(k))
    /\ tasks = [t \in Tasks |-> IdleFrame]
    /\ InitSocketio

\* A station as CreateDefaultStation makes it, bound to a schema version.
BoundStation(stationName, binding) ==
    [id |-> stationName, name |-> stationName, created_by_user |-> SeedUser, schema |-> binding]

SchemaBindings(k) ==
    [name : {<<"s">>}, version_number : 1..k] \cup {[name |-> <<"r">>, version_number |-> 1]}

\* Schema s with k versions, schema r with one; station a bound to a version of
\* s, station b bound to any version or to none.
InitBound ==
    /\ \E k \in 1..MaxSeedVersions :
          \E ba \in [name : {<<"s">>}, version_number : 1..k],
             bb \in SchemaBindings(k) \cup {NoSchemaBinding} :
              SetStore([Run(SeedStore(k), "CreateNewSchema",
                            [name |-> <<"r">>, type |-> Protobuf, schema_content |-> <<"m", "1">>,
                             message_struct_name |-> <<"m">>, username |-> SeedUser]).S
                        EXCEPT !.stations = {BoundStation(<<"a">>, ba), BoundStation(<<"b">>, bb)}])
    /\ tasks = [t \in Tasks |-> IdleFrame]
    /\ InitSocketio

\* The strings validateProducerName is called on: every string of up to
\* MaxShortName characters over NameInputChars, and strings of 31, 32 and 33
\* characters that end in each of these characters.
NameInputChars == {"a", "z", "0", "9", "_", "A", "Z", "-", " ", "\n"}

ShortNames == UNION {[1..n -> NameInputChars] : n \in 0..MaxShortName}

LongNames ==
    {[i \in 1..n |-> IF i = n THEN c ELSE "a"] :
        n \in (MaxNameLen - 1)..(MaxNameLen + 1), c \in NameInputChars}

NameInputs == ShortNames \cup LongNames

InitNames ==
    /\ SetStore(InitStore)
    /\ \E name \in NameInputs :
          tasks = [t \in Tasks |->
                     IF t = "t1" THEN Frame("validateProducerName", "call", [name |-> name])
                     ELSE IdleFrame]
    /\ InitSocketio

\* The stores that up to n createProducerDirect calls leave: every row connected.
RECURSIVE CreatedStores(_)
CreatedStores(n) ==
    IF n = 0 THEN {InitStore}
    ELSE CreatedStores(n - 1)
         \cup {Run(S, "createProducerDirect", req).S :
                  S \in CreatedStores(n - 1), req \in ValidCreateProducerRequests}

InitCreated ==
    /\ \E S \in CreatedStores(MaxProducers) : SetStore(S)
    /\ tasks = [t \in Tasks |-> IdleFrame]
    /\ InitSocketio

\* The stores that up to n createProducerDirect calls on stations a and b leave.
TwoStationsRequests ==
    [name : ProducerNames, station_name : {<<"a">>, <<"b">>}, connection_id : ConnectionIds,
     producer_type : {Application}, username : {ClientUser}]

RECURSIVE TwoStationsStores(_)
TwoStationsStores(n) ==
    IF n = 0 THEN {InitStore}
    ELSE TwoStationsStores(n - 1)
         \cup {Run(S, "createProducerDirect", req).S :
                  S \in TwoStationsStores(n - 1), req \in TwoStationsRequests}

InitTwoStations ==
    /\ \E S \in TwoStationsStores(MaxProducers) : SetStore(S)
    /\ tasks = [t \in Tasks |-> IdleFrame]
    /\ InitSocketio

\* A store with station a and its producer p, disconnected by a kill.
InitOverview ==
    /\ SetStore(Run(Run(InitStore, "createProducerDirect",
                        [name |-> <<"p">>, station_name |-> <<"a">>, connection_id |-> "c1",
                         producer_type |-> Application, username |-> ClientUser]).S,
                    "KillProducers", [connection_id |-> "c1"]).S)
    /\ tasks = [t \in Tasks |-> IdleFrame]
    /\ InitSocketio

(***************************************************************************)
(* Actions                                                                 *)
(***************************************************************************)
Apply(t, r) ==
    /\ connections' = r.S.connections
    /\ stations' = r.S.stations
    /\ producers' = r.S.producers
    /\ auditLogs' = r.S.auditLogs
    /\ schemas' = r.S.schemas
    /\ schemaVersions' = r.S.schemaVersions
    /\ nextObjectId' = r.S.nextObjectId
    /\ tasks' = [tasks EXCEPT ![t] = r.f]
    /\ UNCHANGED socketVars

\* The reply leaves with the caller: the task is free again.
Reply(r) == IF Running(r.f) THEN r ELSE [S |-> r.S, f |-> IdleFrame]

\* Task t takes the next step of the handler it runs.
Continue(t) == Apply(t, Reply(HandlerStep(Store, tasks[t])))

\* Task t starts handler op on request req.
Start(t, op, req) == Apply(t, Reply(HandlerStep(Store, Call(op, req))))

\* The same for a task that serves one request only and keeps its reply.
ContinueOnce(t) == Apply(t, HandlerStep(Store, tasks[t]))

StartOnce(t, op, req) == Apply(t, HandlerStep(Store, Call(op, req)))

Runs(t, op) == tasks[t].op = op /\ Running(tasks[t])

\* The audit log's bound for the requests a task may start: the lone client of
\* the sequential specification is given room for a longer sequence of calls.
AuditLogBound(t) == IF t \in Workers THEN MaxAuditLogs ELSE MaxClientAuditLogs

createProducerDirect(t) ==
    \/ /\ ~Running(tasks[t])
       /\ Len(producers) < MaxProducers
       /\ Len(auditLogs) < AuditLogBound(t)
       /\ \E req \in CreateProducerRequests : Start(t, "createProducerDirect", req)
    \/ /\ Runs(t, "createProducerDirect")
       /\ Continue(t)

destroyProducerDirect(t) ==
    \/ /\ ~Running(tasks[t])
       /\ Len(auditLogs) < AuditLogBound(t)
       /\ \E req \in DestroyProducerRequests : Start(t, "destroyProducerDirect", req)
    \/ /\ Runs(t, "destroyProducerDirect")
       /\ Continue(t)

KillProducers(t) ==
    \/ /\ ~Running(tasks[t])
       /\ Len(auditLogs) < AuditLogBound(t)
       /\ \E req \in ConnectionRequests : Start(t, "KillProducers", req)
    \/ /\ Runs(t, "KillProducers")
       /\ Continue(t)

ReliveProducers(t) ==
    /\ ~Running(tasks[t])
    /\ \E req \in ConnectionRequests : Start(t, "ReliveProducers", req)

CreateNewSchema(t) ==
    \/ /\ ~Running(tasks[t])
       /\ nextObjectId <= MaxObjectIds
       /\ \E req \in CreateSchemaRequests : Start(t, "CreateNewSchema", req)
    \/ /\ Runs(t, "CreateNewSchema")
       /\ Continue(t)

CreateNewVersion(t) ==
    \/ /\ ~Running(tasks[t])
       /\ Len(schemaVersions) < MaxVersions
       /\ \E req \in CreateVersionRequests : Start(t, "CreateNewVersion", req)
    \/ /\ Runs(t, "CreateNewVersion")
       /\ Continue(t)

RollBackVersion(t) ==
    \/ /\ ~Running(tasks[t])
       /\ \E req \in RollBackRequests : Start(t, "RollBackVersion", req)
    \/ /\ Runs(t, "RollBackVersion")
       /\ Continue(t)

RemoveSchema(t) ==
    \/ /\ ~Running(tasks[t])
       /\ \E req \in RemoveSchemaRequests : Start(t, "RemoveSchema", req)
    \/ /\ Runs(t, "RemoveSchema")
       /\ Continue(t)

ValidateSchema(t) ==
    /\ ~Running(tasks[t])
    /\ \E req \in ValidateSchemaCalls : Start(t, "ValidateSchema", req)

RemoveSchemas(t) ==
    \/ /\ ~Running(tasks[t])
       /\ \E req \in RemoveSchemasRaceRequests : Start(t, "RemoveSchema", req)
    \/ /\ Runs(t, "RemoveSchema")
       /\ Continue(t)

CreateNewSchemaOnce(t) ==
    \/ /\ tasks[t].pc = "idle"
       /\ \E req \in ValidCreateSchemaRequests : StartOnce(t, "CreateNewSchema", req)
    \/ /\ Runs(t, "CreateNewSchema")
       /\ ContinueOnce(t)

\* The versions the schema had before the requests.
SeedVersions == {i \in DOMAIN schemaVersions : schemaVersions[i].created_by_user = SeedUser}

\* A parallel request is started while the schema still has its k versions.
CreateNewVersionOnce(t) ==
    \/ /\ tasks[t].pc = "idle"
       /\ DOMAIN schemaVersions = SeedVersions
       /\ \E req \in CreateVersionRequests : StartOnce(t, "CreateNewVersion", req)
    \/ /\ Runs(t, "CreateNewVersion")
       /\ ContinueOnce(t)

createProducerDirectFailing(t) ==
    \/ /\ ~Running(tasks[t])
       /\ Len(producers) < MaxProducers
       /\ Len(auditLogs) < AuditLogBound(t)
       /\ \E req \in FailingCreateProducerRequests : Start(t, "createProducerDirect", req)
    \/ /\ Runs(t, "createProducerDirect")
       /\ Continue(t)

destroyProducerDirectFailing(t) ==
    \/ /\ ~Running(tasks[t])
       /\ Len(auditLogs) < AuditLogBound(t)
       /\ \E req \in FailingDestroyProducerRequests : Start(t, "destroyProducerDirect", req)
    \/ /\ Runs(t, "destroyProducerDirect")
       /\ Continue(t)

KillProducersFailing(t) ==
    \/ /\ ~Running(tasks[t])
       /\ Len(auditLogs) < AuditLogBound(t)
       /\ \E req \in FailingConnectionRequests : Start(t, "KillProducers", req)
    \/ /\ Runs(t, "KillProducers")
       /\ Continue(t)

\* A task serves schema requests one after the other and keeps its last reply.
ServeFailing(t, op, reqs) ==
    \/ /\ ~Running(tasks[t])
       /\ \E req \in reqs : StartOnce(t, op, req)
    \/ /\ Runs(t, op)
       /\ ContinueOnce(t)

CreateNewSchemaFailing(t) ==
    \/ /\ ~Running(tasks[t])
       /\ nextObjectId <= MaxObjectIds + 1
       /\ \E req \in FailingCreateSchemaRequests \cup RefusedTypeRequests :
             StartOnce(t, "CreateNewSchema", req)
    \/ /\ Runs(t, "CreateNewSchema")
       /\ ContinueOnce(t)

CreateNewVersionFailing(t) ==
    \/ /\ ~Running(tasks[t])
       /\ Len(schemaVersions) < MaxVersions
       /\ \E req \in FailingCreateVersionRequests : StartOnce(t, "CreateNewVersion", req)
    \/ /\ Runs(t, "CreateNewVersion")
       /\ ContinueOnce(t)

RollBackVersionFailing(t) == ServeFailing(t, "RollBackVersion", FailingRollBackRequests)

RemoveSchemaFailing(t) == ServeFailing(t, "RemoveSchema", FailingRemoveSchemaRequests)

GetSchemaDetails(t) == ServeFailing(t, "GetSchemaDetails", FailingGetSchemaDetailsRequests)

GetAllSchemas(t) == ServeFailing(t, "GetAllSchemas", FailingGetAllSchemasRequests)

\* The details of a schema of the store for a station bound to its version n.
getExtendedSchemaDetailsUpdateAvailable(t) ==
    ServeFailing(t, "getExtendedSchemaDetailsUpdateAvailable",
                 [schema : schemas, version_number : 1..(MaxVersions + 1)])

\* The call of validateProducerName on the task's string.
ValidateProducerName(t) ==
    /\ tasks[t].op = "validateProducerName"
    /\ tasks[t].pc = "call"
    /\ tasks' = [tasks EXCEPT ![t] = Return(@, validateProducerName(@.req.name))]
    /\ UNCHANGED <<connections, stations, producers, auditLogs, schemas, schemaVersions,
                   nextObjectId>>
    /\ UNCHANGED socketVars

destroyProducerDirectOnce(t) ==
    \/ /\ tasks[t].pc = "idle"
       /\ \E req \in DestroyProducerRequests : StartOnce(t, "destroyProducerDirect", req)
    \/ /\ Runs(t, "destroyProducerDirect")
       /\ ContinueOnce(t)

KillProducersOnce(t) ==
    \/ /\ tasks[t].pc = "idle"
       /\ \E req \in ConnectionRequests : StartOnce(t, "KillProducers", req)
    \/ /\ Runs(t, "KillProducers")
       /\ ContinueOnce(t)

(***************************************************************************)
(* Socket events and the ticker.  A step is one call to the socket server  *)
(* or to the store.                                                        *)
(***************************************************************************)
UnchangedStore ==
    UNCHANGED <<connections, stations, producers, auditLogs, schemas, schemaVersions,
                nextObjectId, tasks>>

\* The names clients register with: a station that exists, in upper case, and
\* one that does not; a factory that exists and one that does not.
StationScopes == {<<"A">>, <<"x">>}

FactoryScopes == {<<"f">>, <<"g">>}

\* The store calls that may answer with an error.
StoreMayFail(c) == IF c.pc = "GetAllFactoriesDetails" THEN BOOLEAN ELSE {FALSE}

\* A register handler of socket s for a scope: s.LeaveAll(), the snapshot's
\* computation, and on success s.Emit() and then s.Join().
Register(s, kind, names) ==
    \/ /\ conns[s].pc = "idle"
       /\ Len(emitted[s]) < MaxFrames
       /\ \E name \in names :
             conns' = [conns EXCEPT ![s] =
                          [pc |-> IF kind = "main" THEN "Emit" ELSE "compute",
                           event |-> kind,
                           snapshot |-> Computed(Snapshot(kind, name))]]
       /\ rooms' = LeaveAll(rooms, s)
       /\ UNCHANGED <<emitted, ticker>>
       /\ UnchangedStore
    \/ /\ conns[s].event = kind
       /\ conns[s].pc = "compute"
       /\ \E fails \in StoreMayFail(conns[s].snapshot) :
             LET c == SnapshotStep(Store, conns[s].snapshot, fails)
             IN  conns' = [conns EXCEPT ![s] =
                              IF c.pc = "err" THEN IdleConn
                              ELSE [@ EXCEPT !.snapshot = c,
                                             !.pc = IF c.pc = "ok" THEN "Emit" ELSE "compute"]]
       /\ UNCHANGED <<rooms, emitted, ticker>>
       /\ UnchangedStore
    \/ /\ conns[s].event = kind
       /\ conns[s].pc = "Emit"
       /\ emitted' = Emit(emitted, s, kind, conns[s].snapshot.data)
       /\ conns' = [conns EXCEPT ![s].pc = "Join"]
       /\ UNCHANGED <<rooms, ticker>>
       /\ UnchangedStore
    \/ /\ conns[s].event = kind
       /\ conns[s].pc = "Join"
       /\ rooms' = Join(rooms, s, RoomName(kind, conns[s].snapshot.name))
       /\ conns' = [conns EXCEPT ![s] = IdleConn]
       /\ UNCHANGED <<emitted, ticker>>
       /\ UnchangedStore

OnRegisterMainOverviewData(s) == Register(s, "main", {<<>>})

OnRegisterFactoriesOverviewData(s) == Register(s, "factories", {<<>>})

OnRegisterFactoryOverviewData(s) == Register(s, "factory", FactoryScopes)

OnRegisterStationOverviewData(s) == Register(s, "station", StationScopes)

OnDeregister(s) ==
    /\ conns[s].pc = "idle"
    /\ rooms' = LeaveAll(rooms, s)
    /\ UNCHANGED <<conns, emitted, ticker>>
    /\ UnchangedStore

\* The client of socket s reads the oldest frame sent to it off the connection.
Receive(s) ==
    /\ emitted[s] # <<>>
    /\ emitted' = [emitted EXCEPT ![s] = Tail(@)]
    /\ UNCHANGED <<rooms, conns, ticker>>
    /\ UnchangedStore

\* The ticker's position after it is done with a room.
AfterRoom(next, todo) ==
    IF next # "loop" THEN next ELSE IF todo = {} THEN "wait" ELSE "RoomLen"

\* The ticker's check of a room of the loop: which snapshot it computes, if any.
RoomScope(R, room) ==
    IF HasPrefix(room, StationPrefix) /\ RoomLen(R, room) > 0
    THEN Snapshot("station", SplitName(room, StationPrefix))
    ELSE IF HasPrefix(room, FactoryPrefix) /\ RoomLen(R, room) > 0
    THEN Snapshot("factory", SplitName(room, FactoryPrefix))
    ELSE NoSnapshot

Tick ==
    /\ \/ /\ ticker.pc = "wait"
          /\ \A s \in Sockets : Len(emitted[s]) < MaxFrames
          /\ ticker' = IF RoomLen(rooms, MainRoom) > 0
                       THEN [pc |-> "BroadcastToRoom", room |-> MainRoom,
                             snapshot |-> Computed(Snapshot("main", <<>>)),
                             next |-> "factories", todo |-> {}]
                       ELSE [IdleTicker EXCEPT !.pc = "factories"]
          /\ UNCHANGED emitted
       \/ /\ ticker.pc = "factories"
          /\ ticker' = IF RoomLen(rooms, FactoriesRoom) > 0
                       THEN [pc |-> "compute", room |-> FactoriesRoom,
                             snapshot |-> Snapshot("factories", <<>>),
                             next |-> "Rooms", todo |-> {}]
                       ELSE [IdleTicker EXCEPT !.pc = "Rooms"]
          /\ UNCHANGED emitted
       \/ /\ ticker.pc = "Rooms"
          /\ ticker' = [IdleTicker EXCEPT !.pc = AfterRoom("loop", Rooms(rooms)),
                                          !.next = "loop", !.todo = Rooms(rooms)]
          /\ UNCHANGED emitted
       \/ /\ ticker.pc = "RoomLen"
          /\ \E room \in ticker.todo :
                LET c == RoomScope(rooms, room)
                    todo == ticker.todo \ {room}
                IN  ticker' = IF c = NoSnapshot
                              THEN [IdleTicker EXCEPT !.pc = AfterRoom("loop", todo),
                                                      !.next = "loop", !.todo = todo]
                              ELSE [pc |-> "compute", room |-> room, snapshot |-> c,
                                    next |-> "loop", todo |-> todo]
          /\ UNCHANGED emitted
       \/ /\ ticker.pc = "compute"
          /\ \E fails \in StoreMayFail(ticker.snapshot) :
                LET c == SnapshotStep(Store, ticker.snapshot, fails)
                IN  ticker' = IF c.pc = "err"
                              THEN [IdleTicker EXCEPT !.pc = AfterRoom(ticker.next, ticker.todo),
                                                      !.next = ticker.next, !.todo = ticker.todo]
                              ELSE [ticker EXCEPT !.snapshot = c,
                                                  !.pc = IF c.pc = "ok" THEN "BroadcastToRoom"
                                                         ELSE "compute"]
          /\ UNCHANGED emitted
       \/ /\ ticker.pc = "BroadcastToRoom"
          /\ emitted' = BroadcastToRoom(emitted, rooms, ticker.room, ticker.snapshot.kind,
                                        ticker.snapshot.data)
          /\ ticker' = [IdleTicker EXCEPT !.pc = AfterRoom(ticker.next, ticker.todo),
                                          !.next = ticker.next, !.todo = ticker.todo]
    /\ UNCHANGED <<rooms, conns>>
    /\ UnchangedStore

(***************************************************************************)
(* Specifications                                                          *)
(***************************************************************************)
\* Producers: two tasks serve create, destroy, kill and relive requests.
Next ==
    \E t \in Workers :
        \/ createProducerDirect(t)
        \/ destroyProducerDirect(t)
        \/ KillProducers(t)
        \/ ReliveProducers(t)

Spec == Init /\ [][Next]_vars

\* Producers: one task serves the requests one after the other.
NextOneClient ==
    \/ createProducerDirect("t3")
    \/ destroyProducerDirect("t3")
    \/ KillProducers("t3")
    \/ ReliveProducers("t3")

SpecOneClient == Init /\ [][NextOneClient]_vars

\* Schemas: two tasks serve create, new-version, rollback, remove and validate requests.
NextSchema ==
    \E t \in Workers :
        \/ CreateNewSchema(t)
        \/ CreateNewVersion(t)
        \/ RollBackVersion(t)
        \/ RemoveSchema(t)
        \/ ValidateSchema(t)

SpecSchema == Init /\ [][NextSchema]_vars

\* Parallel CreateNewSchema requests for one name on an empty store.
NextCreateSchema == \E t \in Tasks : CreateNewSchemaOnce(t)

SpecCreateSchema == Init /\ [][NextCreateSchema]_vars

\* Parallel CreateNewVersion requests on a schema that has k versions.
NextCreateVersion == \E t \in Tasks : CreateNewVersionOnce(t)

SpecCreateVersion == InitVersions /\ [][NextCreateVersion]_vars

\* Removals of bound schemas, with store failures, beside new versions.
NextRemoveSchema ==
    \E t \in Workers :
        \/ RemoveSchemas(t)
        \/ CreateNewVersion(t)

SpecRemoveSchema == InitBound /\ [][NextRemoveSchema]_vars

\* Producers: one task serves requests during which a store call may fail.
NextStoreFailures ==
    \/ createProducerDirectFailing("t1")
    \/ destroyProducerDirectFailing("t1")
    \/ KillProducersFailing("t1")

SpecStoreFailures == Init /\ [][NextStoreFailures]_vars

\* Schemas: one task serves requests during which a store call may fail.
NextSchemaFailures ==
    \/ CreateNewSchemaFailing("t1")
    \/ CreateNewVersionFailing("t1")
    \/ RollBackVersionFailing("t1")
    \/ RemoveSchemaFailing("t1")
    \/ GetSchemaDetails("t1")
    \/ GetAllSchemas("t1")
    \/ getExtendedSchemaDetailsUpdateAvailable("t1")

SpecSchemaFailures == Init /\ [][NextSchemaFailures]_vars

\* validateProducerName called on a string.
NextNames == \E t \in Tasks : ValidateProducerName(t)

SpecNames == InitNames /\ [][NextNames]_vars

\* Two destroyProducerDirect calls side by side on a store of connected producers.
NextDestroyRace == \E t \in Workers : destroyProducerDirectOnce(t)

SpecDestroyRace == InitCreated /\ [][NextDestroyRace]_vars

\* One KillProducers run on a store of connected producers of two stations.
NextKillStations == KillProducersOnce("t1")

SpecKillStations == InitTwoStations /\ [][NextKillStations]_vars

\* Two KillProducers runs side by side on a store of connected producers.
NextKillRace == \E t \in Workers : KillProducersOnce(t)

SpecKillRace == InitCreated /\ [][NextKillRace]_vars

\* The overview broadcaster: sockets register and deregister, the ticker
\* runs, and a task relives the producers of the station.
NextSocketio ==
    \/ \E s \in Sockets :
          \/ OnRegisterMainOverviewData(s)
          \/ OnDeregister(s)
    \/ \E s \in ScopeClients :
          \/ OnRegisterFactoriesOverviewData(s)
          \/ OnRegisterFactoryOverviewData(s)
          \/ OnRegisterStationOverviewData(s)
    \/ Tick
    \/ ReliveProducers("t3")

SpecSocketio == InitOverview /\ [][NextSocketio]_vars

\* The broadcaster with clients that read their frames. The ticker's goroutine
\* is driven by time.Tick and waits for no client, and MaxFrames only bounds
\* the frames kept unread, so the ticker is strongly fair; every client goes
\* on reading.
NextBroadcast ==
    \/ \E s \in Sockets \ ScopeClients : OnRegisterMainOverviewData(s)
    \/ \E s \in ScopeClients : OnRegisterStationOverviewData(s)
    \/ \E s \in Sockets :
          \/ OnDeregister(s)
          \/ Receive(s)
    \/ Tick
    \/ ReliveProducers("t3")

SpecBroadcast ==
    /\ InitOverview
    /\ [][NextBroadcast]_vars
    /\ SF_vars(Tick)
    /\ \A s \in Sockets : WF_vars(Receive(s))

(***************************************************************************)
(* Properties                                                              *)
(***************************************************************************)
Pair(row) == <<row.is_active, row.is_deleted>>

Connected == <<TRUE, FALSE>>

Disconnected == <<FALSE, FALSE>>

Deleted == <<FALSE, TRUE>>

Quiescent == \A t \in Tasks : ~Running(tasks[t])

DoneTasks == {t \in Tasks : tasks[t].pc = "done"}

\* C1: in every reachable state of the producers collection, under any
\* interleaving of createProducerDirect, destroyProducerDirect, KillProducers
\* and ReliveProducers, no producer row is deleted and active at once.
C1_DeletedNotActive ==
    \A i \in DOMAIN producers : producers[i].is_deleted => ~producers[i].is_active

\* A deleted row whose connection also holds a connected row.
C1_Witness ==
    \E i, j \in DOMAIN producers :
        /\ Pair(producers[i]) = Deleted
        /\ Pair(producers[j]) = Connected
        /\ producers[i].connection_id = producers[j].connection_id

\* C2: in every reachable state, also between the two store calls of a running
\* RollBackVersion and under concurrent requests on the same schema, a schema
\* that has two or more versions has exactly one version with active = true.
C2_ExactlyOneActive ==
    \A sc \in schemas :
        LET vs == VersionsOf(schemaVersions, sc.id)
        IN  Cardinality(vs) >= 2 =>
                Cardinality({i \in vs : schemaVersions[i].active}) = 1

\* C3: when N CreateNewSchema requests with the same name and valid inputs run
\* concurrently on a store without that schema, exactly one replies success,
\* the others reply 'Schema with that name already exists', and exactly one
\* SchemaVersion row (version_number 1, active) exists for the schema.
C3_OneSchemaCreated ==
    /\ Len(schemaVersions) <= 1
    /\ (Quiescent /\ DoneTasks # {}) =>
          /\ Cardinality({t \in DoneTasks : tasks[t].result = "200"}) = 1
          /\ \A t \in DoneTasks :
                tasks[t].result \in {"200", "Schema with that name already exists"}
          /\ Cardinality(schemas) = 1
          /\ Len(schemaVersions) = 1
          /\ schemaVersions[1].version_number = 1
          /\ schemaVersions[1].active
          /\ \A sc \in schemas : sc.name = <<"s">> /\ schemaVersions[1].schema_id = sc.id

\* Three requests have run; two of them lost.
C3_Witness ==
    /\ DoneTasks = Tasks
    /\ Cardinality({t \in Tasks : tasks[t].result = "Schema with that name already exists"}) = 2

Succeeded == {t \in DoneTasks : tasks[t].result = "200"}

VersionNumbers(V, schemaId) == {V[i].version_number : i \in VersionsOf(V, schemaId)}

\* C4, as claimed: when N CreateNewVersion requests for the same schema are started
\* while it has k versions, then under every interleaving exactly one request
\* succeeds and creates version k+1, and every other fails with 'Version
\* already exists'.
C4_ExactlyOneVersionCreated ==
    (Quiescent /\ DoneTasks # {}) =>
        /\ Cardinality(Succeeded) = 1
        /\ Len(schemaVersions) = Cardinality(SeedVersions) + 1
        /\ schemaVersions[Len(schemaVersions)].version_number = Cardinality(SeedVersions) + 1
        /\ \A t \in DoneTasks \ Succeeded : tasks[t].result = "Version already exists"

\* C4, amended: at least one request succeeds; the m successful requests create
\* exactly the version numbers k+1..k+m, without gap or duplicate, each
\* inactive; every other request fails with 'Version already exists'.
C4_VersionsCreatedInSequence ==
    (Quiescent /\ DoneTasks # {}) =>
        LET k == Cardinality(SeedVersions)
            m == Cardinality(Succeeded)
        IN  /\ m >= 1
            /\ Len(schemaVersions) = k + m
            /\ \A sc \in schemas :
                  /\ VersionNumbers(schemaVersions, sc.id) = 1..(k + m)
                  /\ Cardinality(VersionsOf(schemaVersions, sc.id)) = k + m
            /\ \A i \in DOMAIN schemaVersions \ SeedVersions :
                  /\ schemaVersions[i].version_number > k
                  /\ ~schemaVersions[i].active
            /\ \A t \in DoneTasks \ Succeeded : tasks[t].result = "Version already exists"

\* Three requests have run: two created a version, one lost the race.
C4_Witness ==
    /\ DoneTasks = Tasks
    /\ Cardinality(Succeeded) = 2
    /\ \E t \in Tasks : tasks[t].result = "Version already exists"

\* C5: in every reachable state, under any interleaving of CreateNewSchema,
\* CreateNewVersion and RemoveSchema, the version numbers of the rows of one
\* schema_id are exactly 1..N, without gap or duplicate, N being their number.
C5_VersionNumbersContiguous ==
    \A id \in {schemaVersions[i].schema_id : i \in DOMAIN schemaVersions} :
        /\ VersionNumbers(schemaVersions, id) = 1..Cardinality(VersionsOf(schemaVersions, id))

\* C6: KillProducers(C) followed at once by ReliveProducers(C) leaves
\* is_active = true on exactly the producers of C that are not deleted, leaves
\* the deleted producers of C inactive, and changes no producer of another
\* connection.
C6_KillThenRelive ==
    \A req \in ConnectionRequests :
        LET killed == Run(Store, "KillProducers", req)
            relived == Run(killed.S, "ReliveProducers", req)
            P == relived.S.producers
        IN  /\ killed.f.result = "nil"
            /\ relived.f.result = "nil"
            /\ DOMAIN P = DOMAIN producers
            /\ \A i \in DOMAIN producers :
                  IF producers[i].connection_id = req.connection_id
                  THEN /\ P[i].is_active = ~producers[i].is_deleted
                       /\ P[i] = [producers[i] EXCEPT !.is_active = ~producers[i].is_deleted]
                  ELSE P[i] = producers[i]

\* A connection with a deleted and a connected producer, another connection
\* with a connected producer: the kill changes the first connection's rows.
C6_Witness ==
    \E req \in ConnectionRequests :
        /\ \E i \in DOMAIN producers :
              /\ producers[i].connection_id = req.connection_id
              /\ Pair(producers[i]) = Deleted
        /\ \E i \in DOMAIN producers :
              /\ producers[i].connection_id # req.connection_id
              /\ Pair(producers[i]) = Connected
        /\ Run(Store, "KillProducers", req).S.producers # producers

\* C7: after a successful destroyProducerDirect of producer p, a second
\* destroyProducerDirect of the same (name, station) returns 'Producer does not
\* exist', changes no producer row and writes no audit record.
C7_SecondDestroyFails ==
    \A req \in DestroyProducerRequests :
        LET first == Run(Store, "destroyProducerDirect", req)
            second == Run(first.S, "destroyProducerDirect", req)
        IN  first.f.result = "nil" =>
                /\ second.f.result = "Producer does not exist"
                /\ second.S.producers = first.S.producers
                /\ second.S.auditLogs = first.S.auditLogs

ActiveFlags(S) == [i \in DOMAIN S.schemaVersions |-> S.schemaVersions[i].active]

\* C8: for every schema S and existing version v, RollBackVersion(S, v) run
\* twice in sequence leaves the same active flags as run once.
C8_RollBackTwice ==
    \A req \in RollBackRequests :
        LET sc == IsSchemaExist(Store, ToLower(req.schema_name))
            once == Run(Store, "RollBackVersion", req)
            twice == Run(once.S, "RollBackVersion", req)
        IN  (sc.exist /\ isSchemaVersionExists(Store, req.version_number, sc.schema.id)) =>
                /\ once.f.result = "200"
                /\ twice.f.result = "200"
                /\ ActiveFlags(twice.S) = ActiveFlags(once.S)

\* A schema with two versions and a rollback to the inactive one, which
\* changes the flags.
C8_Witness ==
    \E req \in RollBackRequests :
        LET sc == IsSchemaExist(Store, ToLower(req.schema_name))
        IN  /\ sc.exist
            /\ getVersionsCount(Store, sc.schema.id) >= 2
            /\ \E i \in VersionsOf(schemaVersions, sc.schema.id) :
                  /\ schemaVersions[i].version_number = req.version_number
                  /\ ~schemaVersions[i].active
            /\ ActiveFlags(Run(Store, "RollBackVersion", req).S) # ActiveFlags(Store)

\* C9: every change of an existing row's (is_active, is_deleted) pair is
\* connected -> disconnected by KillProducers' update, disconnected ->
\* connected by ReliveProducers' update, or connected -> deleted by
\* destroyProducerDirect's update; a deleted row never changes and a
\* disconnected row is never deleted.
C9_LifecycleStep ==
    /\ Len(producers') >= Len(producers)
    /\ \A i \in DOMAIN producers :
          Pair(producers'[i]) # Pair(producers[i]) =>
              \/ /\ Pair(producers[i]) = Connected
                 /\ Pair(producers'[i]) = Disconnected
                 /\ \E t \in Tasks :
                       /\ tasks[t].op = "KillProducers"
                       /\ tasks[t].pc = "UpdateMany"
                       /\ producers' = KillUpdateMany(producers, tasks[t].req.connection_id)
              \/ /\ Pair(producers[i]) = Disconnected
                 /\ Pair(producers'[i]) = Connected
                 /\ \E req \in ConnectionRequests :
                       producers' = ReliveUpdateMany(producers, req.connection_id)
              \/ /\ Pair(producers[i]) = Connected
                 /\ Pair(producers'[i]) = Deleted
                 /\ \E t \in Tasks :
                       /\ tasks[t].op = "destroyProducerDirect"
                       /\ tasks[t].pc = "FindOneAndUpdate"
                       /\ tasks'[t].pc = "CreateAuditLogs"

C9_Lifecycle == [][C9_LifecycleStep]_vars

\* A deleted row beside a disconnected one.
C9_Witness ==
    \E i, j \in DOMAIN producers :
        /\ Pair(producers[i]) = Deleted
        /\ Pair(producers[j]) = Disconnected

RowsNamed(P, name, stationId) ==
    {i \in DOMAIN P : P[i].name = name /\ P[i].station_id = stationId}

EntriesNamed(list, name) == {i \in DOMAIN list : list[i].name = name}

\* The store S holds two rows of that name on the station, the older deleted and
\* the newer connected, and the overview shows the newer one alone, as connected.
TwoRowsOneEntry(S, name, stationId) ==
    LET rows == RowsNamed(S.producers, name, stationId)
        overview == GetProducersByStation(S, stationId)
    IN  /\ Cardinality(rows) = 2
        /\ \E i, j \in rows :
              /\ i < j
              /\ Pair(S.producers[i]) = Deleted
              /\ Pair(S.producers[j]) = Connected
              /\ \A e \in EntriesNamed(overview.connected, name) : overview.connected[e].id = j
        /\ Cardinality(EntriesNamed(overview.connected, name)) = 1
        /\ EntriesNamed(overview.disconnected, name) = {}
        /\ EntriesNamed(overview.deleted, name) = {}

\* C10: after create producer p, destroy p, create p again on the same station,
\* the store holds two rows named p with different ids, the older deleted and
\* the newer connected, and GetProducersByStation returns exactly one entry
\* named p, in the connected list.
C10_CreateDestroyCreate ==
    \A req1, req2 \in ValidCreateProducerRequests :
        LET name == ToLower(req1.name)
            stationName == ToLower(req1.station_name)
            created == Run(Store, "createProducerDirect", req1)
            destroyed == Run(created.S, "destroyProducerDirect",
                             [producer_name |-> req1.name, station_name |-> req1.station_name,
                              username |-> req1.username])
            again == Run(destroyed.S, "createProducerDirect", req2)
        IN  (/\ req2.name = req1.name
             /\ req2.station_name = req1.station_name
             /\ RowsNamed(producers, name, stationName) = {}) =>
                /\ created.f.result = "nil"
                /\ destroyed.f.result = "nil"
                /\ again.f.result = "nil"
                /\ TwoRowsOneEntry(again.S, name, stationName)

\* The three calls have been made: the store holds the two rows.
C10_Witness ==
    \E name \in ProducerNames, stationName \in StationNames :
        TwoRowsOneEntry(Store, name, stationName)

\* Requests of a client on stations that may not exist yet.
NewStationNames == {<<"a">>, <<"b">>, <<"B">>}

NewStationRequests ==
    [name : ProducerNames \cup {<<"P">>}, station_name : NewStationNames,
     connection_id : ConnectionIds, producer_type : {Application, Connector},
     username : {ClientUser}]

\* C11: createProducerDirect with a valid name and type, an active connection
\* and a station name that does not exist ends with the station created with
\* created_by_user copied from the connection, a producer row with
\* is_active = true and is_deleted = false on that station, and exactly two new
\* audit records: station created, then producer created.
C11_AutoCreateStation ==
    \A req \in NewStationRequests :
        LET stationName == ToLower(req.station_name)
            name == ToLower(req.name)
            r == Run(Store, "createProducerDirect", req)
            P == r.S.producers
            A == r.S.auditLogs
        IN  ~IsStationExist(Store, stationName).exist =>
                /\ r.f.result = "nil"
                /\ \E st \in r.S.stations :
                      /\ r.S.stations = stations \cup {st}
                      /\ st.name = stationName
                      /\ st.created_by_user = connections[req.connection_id].created_by_user
                      /\ st.schema = NoSchemaBinding
                      /\ Len(P) = Len(producers) + 1
                      /\ SubSeq(P, 1, Len(producers)) = producers
                      /\ P[Len(P)].name = name
                      /\ P[Len(P)].station_id = st.id
                      /\ P[Len(P)].connection_id = req.connection_id
                      /\ P[Len(P)].is_active
                      /\ ~P[Len(P)].is_deleted
                /\ Len(A) = Len(auditLogs) + 2
                /\ SubSeq(A, 1, Len(auditLogs)) = auditLogs
                /\ A[Len(A) - 1].message = <<"Station", stationName, "has been created">>
                /\ A[Len(A)].message = <<"Producer", name, "has been created">>
                /\ A[Len(A) - 1].station_name = stationName
                /\ A[Len(A)].station_name = stationName

\* The call has been made on an empty store by connection c2: the station, the
\* producer and the two records are there.
C11_Witness ==
    /\ \E st \in stations : st.name = <<"a">> /\ st.created_by_user = "user"
    /\ Len(producers) = 1
    /\ Pair(producers[1]) = Connected
    /\ producers[1].connection_id = "c2"
    /\ Len(auditLogs) = 2
    /\ auditLogs[1].message = <<"Station", <<"a">>, "has been created">>
    /\ auditLogs[2].message = <<"Producer", producers[1].name, "has been created">>

LongName == [i \in 1..(MaxNameLen + 1) |-> "p"]

\* Requests that fail the name check, the type check or the connection check,
\* with the error each must get.
RejectedCreateProducerRequests ==
    {[req |-> [name |-> n.name, station_name |-> st, connection_id |-> "c1",
               producer_type |-> Application, username |-> ClientUser],
      error |-> n.error] :
        n \in {[name |-> <<>>, error |-> "Producer name can not be empty"],
               [name |-> LongName, error |-> "Producer name should be under 32 characters"],
               [name |-> <<"p", "-">>, error |-> "Producer name has to include only letters and _"]},
        st \in NewStationNames}
    \cup
    {[req |-> [name |-> <<"p">>, station_name |-> st, connection_id |-> "c1",
               producer_type |-> <<"x">>, username |-> ClientUser],
      error |-> "Producer type has to be one of the following application/connector"] :
        st \in NewStationNames}
    \cup
    {[req |-> [name |-> <<"p">>, station_name |-> st, connection_id |-> c.id,
               producer_type |-> Application, username |-> ClientUser],
      error |-> c.error] :
        c \in {[id |-> "c0", error |-> "memphis: connection id was not found"],
               [id |-> "c3", error |-> "memphis: connection id is not active"]},
        st \in NewStationNames}

\* C12: a createProducerDirect that fails name validation, type validation or
\* the connection check returns an error and has written nothing: no station,
\* no producer row, no audit record.
C12_RejectedWritesNothing ==
    \A x \in RejectedCreateProducerRequests :
        LET r == Run(Store, "createProducerDirect", x.req)
        IN  /\ r.f.result = x.error
            /\ r.S = Store

\* A store that already holds a station and a producer, where a request for the
\* missing station b is rejected.
C12_Witness ==
    /\ producers # <<>>
    /\ \E x \in RejectedCreateProducerRequests :
          /\ ~IsStationExist(Store, ToLower(x.req.station_name)).exist
          /\ x.req.producer_type # Application
          /\ Run(Store, "createProducerDirect", x.req).f.result # "nil"

\* C13: in every reachable state, under any interleaving of createProducerDirect
\* calls with each other and with KillProducers, ReliveProducers and
\* destroyProducerDirect, a station has at most one producer row with
\* is_deleted = false for any given name.
C13_OneLiveProducerPerName ==
    \A i, j \in DOMAIN producers :
        (/\ i # j
         /\ producers[i].name = producers[j].name
         /\ producers[i].station_id = producers[j].station_id) =>
            (producers[i].is_deleted \/ producers[j].is_deleted)

BoundTo(S, schemaName) == {st \in S.stations : st.schema.name = schemaName}

C14_BoundVersionExists ==
    \A st \in stations :
        st.schema # NoSchemaBinding =>
            \E sc \in schemas :
                /\ sc.name = st.schema.name
                /\ isSchemaVersionExists(Store, st.schema.version_number, sc.id)

C14_RemoveOrder ==
    \A sc \in schemas :
        /\ (\E i \in VersionsOf(schemaVersions, sc.id) :
               \A j \in DOMAIN schemaVersions' : schemaVersions'[j] # schemaVersions[i])
              => BoundTo(Store, sc.name) = {}
        /\ sc \notin schemas' =>
              \E t \in Tasks :
                  /\ tasks[t].op = "RemoveSchema"
                  /\ tasks[t].pc = "DeleteManySchemas"
                  /\ sc.id \in tasks[t].loc.schemaIds

\* C14: in every reachable state, the intermediate states of a running
\* RemoveSchema included, each station whose schema binding names schema s has a
\* SchemaVersion row of s with the bound version number; a step that deletes
\* versions of s finds no station bound to s, and the schema row is deleted by
\* a RemoveSchema that has already made its delete of the versions.
C14_BindingsClearedFirst == []C14_BoundVersionExists /\ [][C14_RemoveOrder]_vars

\* A RemoveSchema has cleared the bindings of s and not yet deleted its versions,
\* while station b is still bound to r.
C14_Witness ==
    /\ \E t \in Tasks : tasks[t].op = "RemoveSchema" /\ tasks[t].pc = "DeleteManyVersions"
    /\ BoundTo(Store, <<"s">>) = {}
    /\ BoundTo(Store, <<"r">>) # {}
    /\ \E sc \in schemas : sc.name = <<"s">> /\ VersionsOf(schemaVersions, sc.id) # {}

RowsOfOthers(V, schemaId) == SelectSeq(V, LAMBDA v : v.schema_id # schemaId)

\* C15: after RemoveSchema([s]) completes successfully with station st bound to
\* s, the schema row s is absent, no SchemaVersion row of s remains, st's
\* binding is empty and st is otherwise unchanged, and schemas not named in the
\* request keep their rows, versions and bindings.
C15_RemoveSchemaEffect ==
    \A names \in {<<<<"s">>>>, <<<<"S">>>>, <<<<"r">>>>} :
        LET sc == IsSchemaExist(Store, ToLower(names[1]))
            r == Run(Store, "RemoveSchema", [schema_names |-> names, fail |-> NoFailure])
        IN  (sc.exist /\ BoundTo(Store, sc.schema.name) # {}) =>
                /\ r.f.result = "200"
                /\ r.S.schemas = schemas \ {sc.schema}
                /\ VersionsOf(r.S.schemaVersions, sc.schema.id) = {}
                /\ r.S.schemaVersions = RowsOfOthers(schemaVersions, sc.schema.id)
                /\ r.S.stations =
                      {IF st \in BoundTo(Store, sc.schema.name)
                       THEN [st EXCEPT !.schema = NoSchemaBinding] ELSE st : st \in stations}
                /\ Cardinality(r.S.stations) = Cardinality(stations)
                /\ r.S.producers = producers
                /\ r.S.auditLogs = auditLogs

\* Station a bound to s and station b bound to r, both schemas with versions:
\* the removal of s has something to clear, delete and keep.
C15_Witness ==
    /\ \E st \in BoundTo(Store, <<"s">>) : st.name = <<"a">>
    /\ \E st \in BoundTo(Store, <<"r">>) : st.name = <<"b">>
    /\ \A sc \in schemas : VersionsOf(schemaVersions, sc.id) # {}
    /\ Cardinality(schemas) = 2
    /\ Run(Store, "RemoveSchema", [schema_names |-> <<<<"s">>>>, fail |-> NoFailure]).S.stations
          # stations

\* The schema of that name is gone from store S: no row, no version, no binding.
Removed(S, sc) ==
    /\ sc \notin S.schemas
    /\ VersionsOf(S.schemaVersions, sc.id) = {}
    /\ BoundTo(S, sc.name) = {}

\* C16: when RemoveSchema is given several names and a store call fails while
\* one of them is handled, the remaining names are still handled (bindings
\* cleared, versions and rows deleted) and the caller receives the first error.
C16_OtherNamesStillRemoved ==
    \A req \in RemoveSchemasRequests :
        LET r == Run(Store, "RemoveSchema", req)
            failed == req.fail.i
        IN  (/\ Len(req.schema_names) = 2
             /\ req.fail.pc \in {"IsSchemaExist", "deleteSchemaFromStation"}
             /\ r.f.result = "Server error") =>
                \A i \in DOMAIN req.schema_names \ {failed} :
                    LET sc == IsSchemaExist(Store, ToLower(req.schema_names[i]))
                    IN  sc.exist => Removed(r.S, sc.schema)

\* C17: for every (type, content, message_struct_name), ValidateSchema returns
\* is_valid = true exactly when CreateNewSchema's checks of type,
\* message_struct_name and content all pass for the same inputs, and
\* ValidateSchema never writes to the store.
C17_ValidateAgreesWithCreate ==
    \A req \in ValidateSchemaRequests :
        LET validated == Run(Store, "ValidateSchema", req)
            created == Run(InitStore, "CreateNewSchema",
                           [name |-> <<"n">>, type |-> req.type,
                            schema_content |-> req.schema_content,
                            message_struct_name |-> req.message_struct_name,
                            username |-> SchemaUser])
        IN  /\ (validated.f.result = "200") <=> (created.f.result = "200")
            /\ validated.S = Store

NotSupportedTypeError == "Json/Avro types are not supported at this time"

UnsupportedTypeError == "unsupported schema type"

\* C18: validateSchemaType accepts exactly the type 'protobuf'; for 'avro' and
\* 'json' it returns the not-supported-at-this-time error and for every other
\* string the different unsupported-schema-type error; in both failing cases
\* CreateNewSchema creates no schema row and no version.
C18_OnlyProtobuf ==
    \A ty \in SchemaTypes, name \in {<<"s">>, <<"n">>} :
        LET r == Run(Store, "CreateNewSchema",
                     [name |-> name, type |-> ty, schema_content |-> <<"m", "1">>,
                      message_struct_name |-> <<"m">>, username |-> SchemaUser])
            lower == ToLower(ty)
            fresh == ~IsSchemaExist(Store, name).exist
        IN  /\ (validateSchemaType(ty) = "nil") <=> (ty = Protobuf)
            /\ ty \in {Avro, Json} => validateSchemaType(ty) = NotSupportedTypeError
            /\ ty \notin {Protobuf, Avro, Json} => validateSchemaType(ty) = UnsupportedTypeError
            /\ (fresh /\ lower \in {Avro, Json}) => r.f.result = NotSupportedTypeError
            /\ (fresh /\ lower \notin {Protobuf, Avro, Json}) => r.f.result = UnsupportedTypeError
            /\ (fresh /\ lower = Protobuf) => r.f.result = "200"
            /\ lower # Protobuf =>
                  /\ r.S.schemas = schemas
                  /\ r.S.schemaVersions = schemaVersions

\* A store that holds schema s with a version, where a request of type avro
\* for a new name is refused.
C18_Witness ==
    /\ \E sc \in schemas : sc.name = <<"s">> /\ VersionsOf(schemaVersions, sc.id) # {}
    /\ Run(Store, "CreateNewSchema",
           [name |-> <<"n">>, type |-> Avro, schema_content |-> <<"m", "1">>,
            message_struct_name |-> <<"m">>, username |-> SchemaUser]).f.result
          = NotSupportedTypeError

SchemaExistsError == "Schema with that name already exists"

C19_NameTakenStep ==
    \A t \in Tasks :
        (/\ tasks'[t] # tasks[t]
         /\ tasks'[t].op = "CreateNewSchema"
         /\ tasks[t].pc \in {"idle", "UpdateOne"}
         /\ \E sc \in schemas : sc.name = ToLower(tasks'[t].req.name)) =>
            /\ tasks'[t].pc = "done"
            /\ tasks'[t].result = SchemaExistsError
            /\ schemas' = schemas
            /\ schemaVersions' = schemaVersions

\* C19: a CreateNewSchema request for a name that already exists, whether caught
\* by the initial existence check or by the upsert matching an existing row,
\* fails with 'Schema with that name already exists', leaves the existing
\* schema row (id, type) and all its versions unchanged and inserts no version.
C19_NameTaken == [][C19_NameTakenStep]_vars

\* Two requests passed the existence check and one of them lost at the upsert;
\* the third was stopped by the existence check.
C19_Witness ==
    /\ DoneTasks = Tasks
    /\ nextObjectId = 3
    /\ Cardinality({t \in Tasks : tasks[t].result = SchemaExistsError}) = 2
    /\ \A sc \in schemas : sc.id \in {1, 2}

C20_NewVersionStep ==
    \A t \in Tasks :
        (tasks[t].op = "CreateNewVersion" /\ tasks'[t] # tasks[t]) =>
            IF tasks[t].pc = "UpdateOne" /\ tasks'[t].pc = "getExtendedSchemaDetails"
            THEN /\ Len(schemaVersions') = Len(schemaVersions) + 1
                 /\ SubSeq(schemaVersions', 1, Len(schemaVersions)) = schemaVersions
                 /\ ~schemaVersions'[Len(schemaVersions')].active
                 /\ schemaVersions'[Len(schemaVersions')].schema_id = tasks[t].loc.schema.id
                 /\ schemaVersions'[Len(schemaVersions')].schema_content
                       = tasks[t].req.schema_content
            ELSE schemaVersions' = schemaVersions

\* C20: a successful CreateNewVersion adds exactly one SchemaVersion row, with
\* active = false, and leaves the active flag, content and number of every
\* existing version of every schema unchanged: the active version stays active.
C20_NewVersionInactive == [][C20_NewVersionStep]_vars

\* The upsert of a CreateNewVersion has just added version 2 beside the active
\* version 1.
C20_Witness ==
    /\ \E t \in Tasks :
          tasks[t].op = "CreateNewVersion" /\ tasks[t].pc = "getExtendedSchemaDetails"
    /\ Len(schemaVersions) = 2
    /\ schemaVersions[1].active
    /\ schemaVersions[1].version_number = 1
    /\ schemaVersions[2].version_number = 2
    /\ ~schemaVersions[2].active
    /\ schemaVersions[2].schema_id = schemaVersions[1].schema_id

RollBackAnyRequests ==
    [schema_name : {<<"s">>, <<"S">>, <<"r">>}, version_number : 1..MaxVersions]

\* C21: a RollBackVersion(S, v) that runs alone and succeeds on a schema with
\* two or more versions ends with v active and every other version of S
\* inactive; on a schema with exactly one version it succeeds without changing
\* any active flag; it never changes a version of another schema, nor anything
\* but active flags.
C21_RollBackAlone ==
    \A req \in RollBackAnyRequests :
        LET sc == IsSchemaExist(Store, ToLower(req.schema_name)).schema
            r == Run(Store, "RollBackVersion", req)
            V == r.S.schemaVersions
        IN  r.f.result = "200" =>
                /\ DOMAIN V = DOMAIN schemaVersions
                /\ \A i \in DOMAIN V :
                      IF schemaVersions[i].schema_id = sc.id /\ getVersionsCount(Store, sc.id) >= 2
                      THEN V[i] = [schemaVersions[i] EXCEPT
                                      !.active = (schemaVersions[i].version_number
                                                    = req.version_number)]
                      ELSE V[i] = schemaVersions[i]
                /\ [r.S EXCEPT !.schemaVersions = schemaVersions] = Store

\* Schema s with an active version 1 and an inactive version 2 beside schema r
\* with its single active version: the rollback of s to 2 changes flags, the
\* rollback of r to 1 succeeds.
C21_Witness ==
    /\ \E sc \in schemas :
          /\ sc.name = <<"s">>
          /\ getVersionsCount(Store, sc.id) = 2
          /\ \E i \in VersionsOf(schemaVersions, sc.id) :
                schemaVersions[i].version_number = 2 /\ ~schemaVersions[i].active
    /\ \E sc \in schemas :
          /\ sc.name = <<"r">>
          /\ getVersionsCount(Store, sc.id) = 1
          /\ \E i \in VersionsOf(schemaVersions, sc.id) : schemaVersions[i].active
    /\ ActiveFlags(Run(Store, "RollBackVersion",
                       [schema_name |-> <<"s">>, version_number |-> 2]).S) # ActiveFlags(Store)
    /\ Run(Store, "RollBackVersion", [schema_name |-> <<"r">>, version_number |-> 1]).f.result
          = "200"

\* The producers of the connection that are active in store S.
ActiveOf(S, connectionId) ==
    {i \in DOMAIN S.producers :
        S.producers[i].connection_id = connectionId /\ S.producers[i].is_active}

DisconnectedMessage(name) == <<"Producer", name, "has been disconnected">>

\* The audit records store T holds beyond those of store S.
NewAuditLogs(S, T) == SubSeq(T.auditLogs, Len(S.auditLogs) + 1, Len(T.auditLogs))

\* C22: a KillProducers(C) that runs alone sets is_active = false on every
\* producer of connection C, changes no is_deleted flag and no producer of
\* another connection, and appends exactly one 'has been disconnected' record
\* for each producer of C that was active when it was called, all with the same
\* created_by_user.
C22_KillAlone ==
    \A req \in ConnectionRequests :
        LET r == Run(Store, "KillProducers", req)
            P == r.S.producers
            new == NewAuditLogs(Store, r.S)
            active == ActiveOf(Store, req.connection_id)
        IN  /\ r.f.result = "nil"
            /\ DOMAIN P = DOMAIN producers
            /\ \A i \in DOMAIN P :
                  IF producers[i].connection_id = req.connection_id
                  THEN P[i] = [producers[i] EXCEPT !.is_active = FALSE]
                  ELSE P[i] = producers[i]
            /\ SubSeq(r.S.auditLogs, 1, Len(auditLogs)) = auditLogs
            /\ Len(new) = Cardinality(active)
            /\ \A k \in DOMAIN new : \E i \in active : new[k].message = DisconnectedMessage(producers[i].name)
            /\ \A i \in active :
                  Cardinality({k \in DOMAIN new : new[k].message = DisconnectedMessage(producers[i].name)})
                      = Cardinality({j \in active : producers[j].name = producers[i].name})
            /\ \A k, l \in DOMAIN new : new[k].created_by_user = new[l].created_by_user
            /\ [r.S EXCEPT !.producers = producers, !.auditLogs = auditLogs] = Store

\* A connection with two connected producers: the kill disconnects both and
\* writes two records.
C22_Witness ==
    \E req \in ConnectionRequests :
        /\ Cardinality(ActiveOf(Store, req.connection_id)) = 2
        /\ Len(NewAuditLogs(Store, Run(Store, "KillProducers", req).S)) = 2

\* C23: after one KillProducers(C) has completed, a second KillProducers(C) with
\* no other operation in between changes no producer row and writes no audit
\* record.
C23_SecondKillNoOp ==
    \A req \in ConnectionRequests :
        LET once == Run(Store, "KillProducers", req)
            twice == Run(once.S, "KillProducers", req)
        IN  /\ twice.f.result = "nil"
            /\ twice.S = once.S

\* A connection with a connected producer and a deleted one: the first kill
\* disconnects and writes a record.
C23_Witness ==
    \E req \in ConnectionRequests :
        /\ ActiveOf(Store, req.connection_id) # {}
        /\ \E i \in DOMAIN producers :
              producers[i].connection_id = req.connection_id /\ Pair(producers[i]) = Deleted
        /\ Run(Store, "KillProducers", req).S # Store

\* The store the kills of SpecKillRace were started on: every producer was
\* connected and no 'has been disconnected' record was written.
StoreBeforeKills ==
    [Store EXCEPT
        !.producers = [i \in DOMAIN producers |-> [producers[i] EXCEPT !.is_active = TRUE]],
        !.auditLogs = SelectSeq(auditLogs, LAMBDA a : a.message[3] # "has been disconnected")]

\* C24: two KillProducers runs for the same connection that execute
\* concurrently leave, under every interleaving of their find and update-many
\* store calls, the producer rows and the audit records in the same final state
\* as a single run.
C24_ConcurrentKillsAsOne ==
    \A t1, t2 \in Workers :
        (/\ t1 # t2
         /\ tasks[t1].pc = "done"
         /\ tasks[t2].pc = "done"
         /\ tasks[t1].req = tasks[t2].req) =>
            Store = Run(StoreBeforeKills, "KillProducers", tasks[t1].req).S

Front(seq) == SubSeq(seq, 1, Len(seq) - 1)

Messages(S) == {S.auditLogs[i].message : i \in DOMAIN S.auditLogs}

\* C25: when the audit-log write fails inside createProducerDirect,
\* destroyProducerDirect or KillProducers, the operation still returns success
\* and the producer-row change it made (insert, mark deleted, mark inactive)
\* stays in the store: the store is the one the call without the failure
\* leaves, less the records of the failed write.
C25_AuditFailureIgnored ==
    /\ \A req \in FailingCreateProducerRequests :
          LET ok == Run(Store, "createProducerDirect", [req EXCEPT !.fail = "none"])
              bad == Run(Store, "createProducerDirect", req)
          IN  (ok.f.result = "nil" /\ req.fail \in {"CreateAuditLogsStation", "CreateAuditLogsProducer"}) =>
                  /\ bad.f.result = "nil"
                  /\ Len(bad.S.producers) = Len(producers) + 1
                  /\ Pair(bad.S.producers[Len(bad.S.producers)]) = Connected
                  /\ bad.S.producers[Len(bad.S.producers)].name = ToLower(req.name)
                  /\ bad.S.auditLogs =
                        IF req.fail = "CreateAuditLogsProducer" THEN Front(ok.S.auditLogs)
                        ELSE IF IsStationExist(Store, ToLower(req.station_name)).exist
                        THEN ok.S.auditLogs
                        ELSE auditLogs \o <<ok.S.auditLogs[Len(ok.S.auditLogs)]>>
                  /\ [bad.S EXCEPT !.auditLogs = ok.S.auditLogs] = ok.S
    /\ \A req \in FailingDestroyProducerRequests :
          LET ok == Run(Store, "destroyProducerDirect", [req EXCEPT !.fail = "none"])
              bad == Run(Store, "destroyProducerDirect", req)
          IN  (ok.f.result = "nil" /\ req.fail = "CreateAuditLogs") =>
                  /\ bad.f.result = "nil"
                  /\ bad.S.producers # producers
                  /\ bad.S = [ok.S EXCEPT !.auditLogs = auditLogs]
    /\ \A req \in FailingConnectionRequests :
          LET ok == Run(Store, "KillProducers", [req EXCEPT !.fail = "none"])
              bad == Run(Store, "KillProducers", req)
          IN  req.fail = "CreateAuditLogs" =>
                  /\ bad.f.result = "nil"
                  /\ \A i \in DOMAIN bad.S.producers :
                        bad.S.producers[i].connection_id = req.connection_id
                            => ~bad.S.producers[i].is_active
                  /\ bad.S = [ok.S EXCEPT !.auditLogs = auditLogs]

\* The three audit writes have failed: a deleted producer and a disconnected
\* one, and no record of a producer's creation, deletion or disconnection.
C25_Witness ==
    /\ tasks["t1"].pc = "idle"
    /\ \E i, j \in DOMAIN producers :
          /\ Pair(producers[i]) = Deleted
          /\ Pair(producers[j]) = Disconnected
    /\ \A m \in Messages(Store) : m[1] # "Producer"

FailingNewStationRequests ==
    [name : ProducerNames, station_name : NewStationNames, connection_id : {"c1"},
     producer_type : {Application}, username : {ClientUser},
     fail : {"IsProducerExist", "InsertOne"}]

\* C26: when createProducerDirect auto-creates the station and a later step
\* fails (the producer uniqueness lookup errors or the producer insert fails),
\* the call returns an error, no producer row exists for the request, and the
\* auto-created station and its audit record remain in the store.
C26_StationKept ==
    \A req \in FailingNewStationRequests :
        LET stationName == ToLower(req.station_name)
            r == Run(Store, "createProducerDirect", req)
        IN  ~IsStationExist(Store, stationName).exist =>
                /\ r.f.result = StoreError
                /\ r.S.producers = producers
                /\ \E st \in r.S.stations :
                      /\ st.name = stationName
                      /\ r.S.stations = stations \cup {st}
                      /\ st \notin stations
                /\ Len(r.S.auditLogs) = Len(auditLogs) + 1
                /\ Front(r.S.auditLogs) = auditLogs
                /\ r.S.auditLogs[Len(r.S.auditLogs)].message
                      = <<"Station", stationName, "has been created">>

\* A failed call has returned: station a and its record are in the store and no
\* producer is.
C26_Witness ==
    /\ tasks["t1"].pc = "idle"
    /\ producers = <<>>
    /\ \E st \in stations : st.name = <<"a">>
    /\ Messages(Store) = {<<"Station", <<"a">>, "has been created">>}

\* The ids of the rows a list of the overview shows.
ShownIds(list) == {list[e].id : e \in DOMAIN list}

\* C27: for every set of producer rows of a station, GetProducersByStation
\* returns three lists in which every distinct producer name appears exactly
\* once in total, represented by its newest row (by creation_date), placed in
\* connected if that row is active, in disconnected if it is neither active nor
\* deleted, and in deleted if it is deleted; older rows of the same name appear
\* in no list.
C27_NewestRowPerName ==
    \A stationId \in StationNames :
        LET rows == {i \in DOMAIN producers : producers[i].station_id = stationId}
            newest == {i \in rows :
                          \A j \in rows :
                              producers[j].name = producers[i].name
                                  => producers[j].creation_date <= producers[i].creation_date}
            overview == GetProducersByStation(Store, stationId)
        IN  /\ ShownIds(overview.connected) = {i \in newest : Pair(producers[i]) = Connected}
            /\ ShownIds(overview.disconnected) = {i \in newest : Pair(producers[i]) = Disconnected}
            /\ ShownIds(overview.deleted) = {i \in newest : Pair(producers[i]) = Deleted}
            /\ Len(overview.connected) + Len(overview.disconnected) + Len(overview.deleted)
                  = Cardinality({producers[i].name : i \in rows})
            /\ \A list \in {overview.connected, overview.disconnected, overview.deleted} :
                  \A e \in DOMAIN list :
                      /\ list[e].id \in rows
                      /\ [k \in DOMAIN producers[list[e].id] |-> list[e][k]] = producers[list[e].id]

\* Two rows of one name, the older deleted and the newer disconnected: the
\* overview shows the newer alone, in the disconnected list.
C27_Witness ==
    \E stationId \in StationNames :
        LET overview == GetProducersByStation(Store, stationId)
        IN  /\ Len(producers) = 2
            /\ producers[1].name = producers[2].name
            /\ producers[1].station_id = stationId
            /\ producers[2].station_id = stationId
            /\ Pair(producers[1]) = Deleted
            /\ Pair(producers[2]) = Disconnected
            /\ ShownIds(overview.disconnected) = {2}
            /\ overview.connected = <<>>
            /\ overview.deleted = <<>>

\* The rooms socket s is a member of.
RoomsOf(R, s) == {m[1] : m \in {x \in R : x[2] = s}}

Members(R, room) == {m[2] : m \in {x \in R : x[1] = room}}

\* The data is a snapshot of the room's scope, computed without error.
SnapshotOf(room, frame) ==
    CASE room = MainRoom ->
           frame.event = "main_overview_data" /\ frame.data.scope = "main"
      [] room = FactoriesRoom ->
           frame.event = "factories_overview_data" /\ frame.data.scope = "factories"
      [] room[1] = FactoryPrefix ->
           /\ frame.event = "factory_overview_data"
           /\ frame.data.scope = "factory"
           /\ frame.data.name = ToLower(room[2])
      [] room[1] = StationPrefix ->
           /\ frame.event = "station_overview_data"
           /\ frame.data.scope = "station"
           /\ frame.data.name = ToLower(room[2])

Last(seq) == seq[Len(seq)]

C28_SnapshotEmitted ==
    \A m \in rooms : \E i \in DOMAIN emitted[m[2]] : SnapshotOf(m[1], emitted[m[2]][i])

C28_JoinStep ==
    \A s \in Sockets :
        /\ \A room \in RoomsOf(rooms', s) \ RoomsOf(rooms, s) :
              /\ emitted[s] # <<>>
              /\ SnapshotOf(room, Last(emitted[s]))
              /\ emitted'[s] = emitted[s]
              /\ RoomsOf(rooms, s) = {}
        /\ (conns[s].pc = "compute" /\ conns'[s].pc = "idle") =>
              /\ RoomsOf(rooms', s) = {}
              /\ emitted'[s] = emitted[s]

TickerChecks(room) ==
    /\ ticker.pc \in {"wait", "factories", "RoomLen"}
    /\ ticker'.pc \in {"compute", "BroadcastToRoom"}
    /\ ticker'.room = room

C29_TickStep ==
    /\ \A room \in {ticker'.room} :
          TickerChecks(room) =>
              /\ Members(rooms, room) # {}
              /\ RoomName(ticker'.snapshot.kind, ticker'.snapshot.name) = room
    /\ (ticker'.pc \in {"compute", "BroadcastToRoom"} /\ ticker.pc \notin {"compute", "BroadcastToRoom"})
          => TickerChecks(ticker'.room)
    /\ (ticker.pc \in {"compute", "BroadcastToRoom"} /\ ticker'.pc \in {"compute", "BroadcastToRoom"})
          => ticker'.room = ticker.room
    /\ \A s \in Sockets :
          (Len(emitted'[s]) > Len(emitted[s]) /\ conns[s].pc # "Emit") =>
              /\ ticker.pc = "BroadcastToRoom"
              /\ s \in Members(rooms, ticker.room)

\* C29: on every tick the broadcaster computes and broadcasts a snapshot for a
\* scope only if that scope's room has at least one member when the tick checks
\* it; a room with zero members causes no snapshot computation and no broadcast.
C29_EmptyRoomSkipped == [][C29_TickStep]_vars

\* The ticker has skipped the empty main room and computes the snapshot of
\* station A's room, which socket k1 has left since the ticker counted its members.
C29_Witness ==
    /\ ticker.pc = "compute"
    /\ ticker.room = <<StationPrefix, <<"A">>>>
    /\ Members(rooms, MainRoom) = {}
    /\ Members(rooms, ticker.room) = {}

\* The snapshot of a room's scope, computed on store S.
FreshSnapshot(S, room) ==
    CASE room = MainRoom -> getMainOverviewData
      [] room = FactoriesRoom -> [scope |-> "factories", factories |-> Factories]
      [] room[1] = FactoryPrefix -> [scope |-> "factory", name |-> ToLower(room[2])]
      [] room[1] = StationPrefix ->
           [scope |-> "station", name |-> ToLower(room[2]),
            producers |-> GetProducersByStation(S, ToLower(room[2])),
            consumers |-> GetConsumersByStation(S, ToLower(room[2]))]

\* The ticker broadcasts to the room on this step.
Broadcasts(room) == ticker.pc = "BroadcastToRoom" /\ ticker.room = room /\ ticker'.pc # ticker.pc

\* Socket s is sent the ticker's snapshot of the room on this step.
Delivered(s, room) ==
    /\ Broadcasts(room)
    /\ emitted'[s] = Append(emitted[s], [event |-> DataEvent(ticker.snapshot.kind),
                                        data |-> ticker.snapshot.data])
    /\ SnapshotOf(room, Last(emitted'[s]))

C30_BroadcastStep ==
    /\ (ticker.pc = "compute" /\ ticker.snapshot.pc = "GetProducersByStation"
                               /\ ticker'.snapshot.pc = "GetConsumersByStation") =>
          ticker'.snapshot.data.producers = FreshSnapshot(Store, ticker.room).producers
    /\ (ticker'.pc = "BroadcastToRoom" /\ ticker.pc # "BroadcastToRoom") =>
          ticker'.snapshot.data =
             IF ticker'.snapshot.kind = "station"
             THEN [FreshSnapshot(Store, ticker'.room) EXCEPT
                     !.producers = ticker.snapshot.data.producers]
             ELSE FreshSnapshot(Store, ticker'.room)
    /\ \A m \in rooms : Broadcasts(m[1]) => Delivered(m[2], m[1])

\* The rooms a socket of the broadcaster's clients can stay in.
Subscriptions ==
    {<<MainRoom, s>> : s \in Sockets \ ScopeClients}
        \cup {<<<<StationPrefix, <<"A">>>>, s>> : s \in ScopeClients}

\* C30: a subscriber that joined a room and stays in it is sent a fresh
\* snapshot of that room's scope on every later tick whose snapshot computation
\* succeeds: a snapshot the ticker broadcasts was read from the store during
\* that tick, each part at its own read, and is sent to every member the room
\* has; so, the ticker running
\* on, a socket that stays in a room for ever is sent snapshots of its scope
\* again and again.
C30_SnapshotsAgainAndAgain ==
    /\ [][C30_BroadcastStep]_vars
    /\ \A m \in Subscriptions :
          <>[](m \in rooms) => []<><<Delivered(m[2], m[1])>>_vars

\* Socket k1 in station A's room holds two snapshots of station a: the one of
\* its register, with the producer disconnected, and a later one from a tick,
\* with the producer connected.
C30_Witness ==
    /\ <<StationPrefix, <<"A">>>> \in RoomsOf(rooms, "k1")
    /\ Len(emitted["k1"]) = 2
    /\ \A i \in 1..2 : emitted["k1"][i].data.scope = "station"
    /\ Len(emitted["k1"][1].data.producers.disconnected) = 1
    /\ Len(emitted["k1"][2].data.producers.connected) = 1

\* The snapshot computations under way: the register handlers' and the ticker's.
Computations == {conns[s].snapshot : s \in Sockets} \cup {ticker.snapshot}

\* A station snapshot's producers are read and its consumers are not yet.
BetweenReads(c) == c.kind = "station" /\ c.pc = "GetConsumersByStation"

\* C31: the producers and the consumers of one station_overview snapshot
\* reflect one and the same store state: while a snapshot's producers are read
\* and its consumers are not yet, no create, destroy, kill or relive takes
\* effect on the producers collection.
C31_NoTornView ==
    [][(\E c \in Computations : BetweenReads(c)) => producers' = producers]_vars

\* The store call the frame is about to make fails.
FailsHere(f) ==
    /\ Running(f)
    /\ IF f.op = "RemoveSchema" THEN StoreFails(f) ELSE CallFails(f)

GenericMessages == {"Server error", "Server Error"}

\* The reply to a failed store call of task t's handler is 500 and generic.
GenericReply(t) ==
    (FailsHere(tasks[t]) /\ tasks'[t] # tasks[t]) =>
        /\ tasks'[t].pc = "done"
        /\ tasks'[t].loc = [status |-> 500]
        /\ tasks'[t].result \in GenericMessages

\* C32: whenever a store call fails inside a schema HTTP handler
\* (CreateNewSchema, CreateNewVersion, RollBackVersion, RemoveSchema,
\* GetSchemaDetails, GetAllSchemas), the response is status 500 with a fixed
\* generic message that does not contain the store error's text.
C32_GenericServerError == [][\A t \in Tasks : GenericReply(t)]_vars

\* The same for every handler and call but updateActiveVersion's two updates
\* inside RollBackVersion.
GenericReplyButRollBack ==
    [][\A t \in Tasks :
          (tasks[t].op = "RollBackVersion" /\ tasks[t].pc \in {"UpdateMany", "UpdateOne"})
          \/ GenericReply(t)]_vars

\* The characters a-z, 0-9 and the underscore.
AllowedNameChars ==
    {"a","b","c","d","e","f","g","h","i","j","k","l","m","n","o","p","q","r","s","t","u",
     "v","w","x","y","z","0","1","2","3","4","5","6","7","8","9","_"}

Validated(t) == tasks[t].op = "validateProducerName" /\ tasks[t].pc = "done"

\* C33: validateProducerName accepts a string exactly when it has between 1
\* and 32 characters and every character is a lowercase letter a-z, a digit 0-9
\* or an underscore; the empty string and every string of 33 or more
\* characters are rejected.
C33_NameAccepted ==
    \A t \in Tasks :
        Validated(t) =>
            LET name == tasks[t].req.name
            IN  /\ (tasks[t].result = "nil") <=>
                      /\ Len(name) >= 1
                      /\ Len(name) <= 32
                      /\ \A i \in DOMAIN name : name[i] \in AllowedNameChars
                /\ (Len(name) = 0 \/ Len(name) >= 33) => tasks[t].result # "nil"

\* A name of exactly 32 characters that ends in an underscore was accepted.
C33_Witness ==
    \E t \in Tasks :
        /\ Validated(t)
        /\ Len(tasks[t].req.name) = 32
        /\ tasks[t].req.name[32] = "_"
        /\ tasks[t].result = "nil"

\* Requests whose producer name contains an uppercase letter.
UppercaseNameRequests ==
    [name : {<<"P">>, <<"p", "Q">>}, station_name : {<<"a">>}, connection_id : {"c1"},
     producer_type : {Application}, username : {ClientUser}]

\* C34: createProducerDirect rejects a request whose producer name contains an
\* uppercase letter: it returns a validation error and inserts no producer row.
C34_UppercaseRejected ==
    \A req \in UppercaseNameRequests :
        LET r == Run(Store, "createProducerDirect", req)
        IN  /\ r.f.result = "Producer name has to include only letters and _"
            /\ r.S.producers = producers

\* The rows of the store that are version n of the schema, and its active rows.
VersionRows(id, n) ==
    {schemaVersions[i] : i \in {k \in VersionsOf(schemaVersions, id) :
                                   schemaVersions[k].version_number = n}}

ActiveRows(id) ==
    {schemaVersions[i] : i \in {k \in VersionsOf(schemaVersions, id) : schemaVersions[k].active}}

DetailsReturned(t) ==
    tasks[t].op = "getExtendedSchemaDetailsUpdateAvailable" /\ tasks[t].pc = "done"

\* C35: for a station bound to version n of schema S,
\* getExtendedSchemaDetailsUpdateAvailable returns a version list that is
\* exactly [version n] when version n is active, and exactly [version n, the
\* active version of S] when version n is not active; it returns an error
\* instead of a list when version n does not exist or when n is inactive and S
\* has no active version.
C35_UsedAndActiveVersion ==
    \A t \in Tasks :
        DetailsReturned(t) =>
            LET used == VersionRows(tasks[t].req.schema.id, tasks[t].req.version_number)
                active == ActiveRows(tasks[t].req.schema.id)
            IN  IF used = {} \/ (active = {} /\ \A v \in used : ~v.active)
                THEN tasks[t].result # "nil"
                ELSE /\ tasks[t].result = "nil"
                     /\ Cardinality(used) = 1
                     /\ Cardinality(active) = 1
                     /\ \E v \in used, a \in active :
                           tasks[t].loc.versions = IF v.active THEN <<v>> ELSE <<v, a>>

\* The details for version 1 after the rollback to version 2: version 1, then
\* the active version 2.
C35_Witness ==
    \E t \in Tasks :
        /\ DetailsReturned(t)
        /\ tasks[t].result = "nil"
        /\ tasks[t].req.version_number = 1
        /\ Len(tasks[t].loc.versions) = 2
        /\ tasks[t].loc.versions[2].version_number = 2

\* No version of the schema is active, and the function returned an error.
NoActiveVersionReached ==
    \E t \in Tasks :
        /\ DetailsReturned(t)
        /\ tasks[t].result = ErrNoDocuments
        /\ VersionRows(tasks[t].req.schema.id, tasks[t].req.version_number) # {}
        /\ ActiveRows(tasks[t].req.schema.id) = {}

\* C36: when CreateNewSchema's upsert inserts the schema row and the following
\* insert of version 1 fails, the request ends with a server error while the
\* schema row stays in the store with zero versions; it is not rolled back, and
\* a later CreateNewSchema with the same name fails with 'already exists'.
C36_SchemaWithoutVersions ==
    \A req \in FailingCreateSchemaRequests :
        (req.fail = "InsertOne" /\ ~IsSchemaExist(Store, ToLower(req.name)).exist) =>
            LET bad == Run(Store, "CreateNewSchema", req)
                row == IsSchemaExist(bad.S, ToLower(req.name))
                later == Run(bad.S, "CreateNewSchema", [req EXCEPT !.fail = "none"])
            IN  /\ bad.f.result = "Server error"
                /\ bad.f.loc.status = 500
                /\ row.exist
                /\ bad.S.schemas = schemas \cup {row.schema}
                /\ getVersionsCount(bad.S, row.schema.id) = 0
                /\ bad.S.schemaVersions = schemaVersions
                /\ later.f.result = "Schema with that name already exists"
                /\ later.S = bad.S

\* The task's CreateNewSchema ended with a server error at the insert of
\* version 1, and the schema row is in the store without a version.
C36_Witness ==
    \E t \in Tasks :
        /\ tasks[t].op = "CreateNewSchema"
        /\ tasks[t].pc = "done"
        /\ tasks[t].req.fail = "InsertOne"
        /\ tasks[t].result = "Server error"
        /\ LET row == IsSchemaExist(Store, ToLower(tasks[t].req.name))
           IN  row.exist /\ getVersionsCount(Store, row.schema.id) = 0

\* A later CreateNewSchema with the name of a schema without versions was
\* answered 'already exists'.
NameTakenWithoutVersions ==
    \E t \in Tasks :
        /\ tasks[t].op = "CreateNewSchema"
        /\ tasks[t].pc = "done"
        /\ tasks[t].result = "Schema with that name already exists"
        /\ LET row == IsSchemaExist(Store, ToLower(tasks[t].req.name))
           IN  row.exist /\ getVersionsCount(Store, row.schema.id) = 0

DeletedMessage(name) == <<"Producer", name, "has been deleted">>

\* The producer a destroy request names.
Destroyed(req) == <<ToLower(req.producer_name), ToLower(req.station_name)>>

\* The rows of the producer a destroy request names.
RowsOf(req) ==
    {i \in DOMAIN producers :
        /\ producers[i].name = ToLower(req.producer_name)
        /\ producers[i].station_id = ToLower(req.station_name)}

\* C37: when two destroyProducerDirect calls for the same connected producer
\* (same name and station) run concurrently, exactly one succeeds and writes
\* exactly one 'has been deleted' audit record; the other returns 'Producer
\* does not exist' and writes nothing.  The calls of SpecDestroyRace start on
\* a store whose rows are all connected, one row for each name.
C37_OneDestroyWins ==
    \A t1, t2 \in Workers :
        (/\ t1 # t2
         /\ tasks[t1].pc = "done"
         /\ tasks[t2].pc = "done"
         /\ Destroyed(tasks[t1].req) = Destroyed(tasks[t2].req)
         /\ RowsOf(tasks[t1].req) # {}) =>
            /\ {tasks[t1].result, tasks[t2].result} = {"nil", "Producer does not exist"}
            /\ Cardinality({k \in DOMAIN auditLogs :
                               auditLogs[k].message = DeletedMessage(Destroyed(tasks[t1].req)[1])}) = 1
            /\ \A i \in RowsOf(tasks[t1].req) : Pair(producers[i]) = Deleted
            /\ \A i \in DOMAIN producers \ RowsOf(tasks[t1].req) : Pair(producers[i]) = Connected
            /\ Cardinality({k \in DOMAIN auditLogs : auditLogs[k].message[3] = "has been deleted"}) = 1

\* One call was answered 'Producer does not exist' while the other, which
\* marked the row deleted, has not yet written its audit record.
C37_Witness ==
    \E t1, t2 \in Workers :
        /\ tasks[t1].pc = "done"
        /\ tasks[t1].result = "Producer does not exist"
        /\ tasks[t2].op = "destroyProducerDirect"
        /\ tasks[t2].pc = "CreateAuditLogs"
        /\ Destroyed(tasks[t1].req) = Destroyed(tasks[t2].req)
        /\ \E i \in RowsOf(tasks[t1].req) : Pair(producers[i]) = Deleted

\* C38: in every reachable state, under any interleaving of CreateNewSchema,
\* CreateNewVersion and RemoveSchema, every SchemaVersion row has a schema_id
\* that is the id of an existing schema row.
C38_VersionsHaveSchema ==
    \A i \in DOMAIN schemaVersions : \E sc \in schemas : sc.id = schemaVersions[i].schema_id

\* Socket s leaves every room on this step: a deregister, or a register whose
\* snapshot computation fails.
Deregisters(s) == conns[s].pc = "idle" /\ conns'[s] = conns[s] /\ rooms' = LeaveAll(rooms, s)

RegisterFails(s) == conns[s].pc = "compute" /\ conns'[s] = IdleConn

C39_LeaveStep ==
    \A s \in Sockets :
        /\ (Deregisters(s) /\ rooms' # rooms) => RoomsOf(rooms', s) = {}
        /\ RegisterFails(s) => RoomsOf(rooms', s) = {}

C39_OneRoom == \A s \in Sockets : Cardinality(RoomsOf(rooms, s)) <= 1

C40_RecordNamesStation ==
    \A k \in DOMAIN auditLogs :
        auditLogs[k].message[3] = "has been disconnected" =>
            \E i \in DOMAIN producers :
                /\ producers[i].name = auditLogs[k].message[2]
                /\ producers[i].station_id = auditLogs[k].station_name

====
